---- MODULE Spec2Model ----
(***************************************************************************)
(* A model of the object construction and identity code of the design     *)
(* pattern catalogue: the guarded Singleton, the SingletonRegistry and    *)
(* the LazySingleton of src/src/creational/singleton/index.ts, the         *)
(* builders and the ComputerDirector of src/src/creational/builder/       *)
(* index.ts, and the ProductFactory and ParameterizedFactory of the       *)
(* factory method module (src/unnamed/part_000).                          *)
(*                                                                         *)
(* JavaScript values are records: undefined, null, and object references  *)
(* Obj(n), where n is the index of the object in the heap.  Two object    *)
(* references are identical (===, toBe) exactly when their indices are.   *)
(***************************************************************************)
EXTENDS Integers, Sequences, FiniteSets, TLC

(* ------------------------------ bounds -------------------------------- *)

\* The number of operations a sequential caller performs on Singleton.
MaxSingletonOps == 6

\* The number of operations earlier callers perform before the callbacks are
\* scheduled.
MaxSetupOps == 3

\* The number of callbacks scheduled at once (the test schedules 100).
NCallers == 4

\* The number of threads that enter Singleton.getInstance() in parallel.
NThreads == 2

\* The number of objects the registry's factories construct.
MaxObjects == 2

\* The number of factory invocations for one key between two resets of it.
MaxInvocations == 2

\* The number of operations a caller performs on LazySingleton.
MaxLazyOps == 5

\* The number of ticks the system clock advances.
MaxClock == 2

\* The number of Computer objects one builder builds.
MaxComputers == 2

\* The number of calls made on a ComputerDirector and on its builder.
MaxDirectorOps == 3

\* The number of objects the factories and the creators construct.
MaxProducts == 2

\* The number of direct constructor calls the intruding thread makes.
MaxDirect == 1

\* The number of Computers built with a Fluent or Step builder.
MaxVariantBuilds == 2

\* The number of products built with a GenericBuilder subclass.
MaxGenericBuilds == 3

\* The number of getInstance() calls begun, those of factories included.
MaxReentrantCalls == 3

VARIABLES
    instance,     \* Singleton.instance (static)
    isCreating,   \* Singleton.isCreating (static)
    heap,         \* the objects constructed so far, by index
    log,          \* what the caller has observed: one record per completed call
    phase,        \* the concurrent-access scenario: "setup", "scheduled", "settled"
    pending,      \* the scheduled callbacks that have not run yet
    results,      \* the frame each callback that has run ended with
    frames,       \* the frame of each parallel thread's getInstance() call
    instances,    \* SingletonRegistry.instances: the Map, a function on its keys
    last,         \* the last registry call: its arguments and its outcome
    invoked,      \* per key: factory invocations since the key's last reset
    completed,    \* per key: those of them that returned a value
    returned,     \* per key: the values getInstance returned since its last reset
    onlyNew,      \* per key: every factory passed for it since its last reset
                  \* constructs a new object on each invocation
    dropped,      \* per key: the value its last reset removed, kept until the
                  \* next getInstance for the key returns (undefined if none)
    swept,        \* the keys for which no getInstance was called since the last
                  \* resetAll()
    lazyInstance, \* LazySingleton._instance (static)
    clock,        \* the system clock new Date() reads
    lazyLog,      \* what LazySingleton's caller has observed, one record per call
    builder,      \* the fields of a ConcreteComputerBuilder
    passed,       \* per field: the value last passed to its setter since the
                  \* builder was constructed or last reset (undefined if none)
    built,        \* the number of Computer objects constructed so far
    lastCall,     \* the last call on the builder: its argument and its outcome
    dirBuilder,   \* the fields of the builder a ComputerDirector holds
    computers,    \* the Computer objects built through that builder, by index
    dirLog,       \* the calls made on the director and on its builder
    variant,      \* a FluentComputerBuilder or a StepComputerBuilder
    variantCall,  \* the last call on it: its argument and its outcome
    creators,     \* ParameterizedFactory.creators: the Map, in insertion order
    products,     \* the objects the factories and the creators constructed
    registered,   \* the register() calls so far: types in order, last creator of each
    factoryCall,  \* the last factory call: its arguments and its outcome
    direct,       \* the direct constructor calls of the intruding thread
    generic,      \* the state of a builder that extends GenericBuilder
    genericCall,  \* its last call: the methods it ran, in order, and its outcome
    stack,        \* the registry calls in progress, innermost last
    reLog         \* the registry calls that have ended, in order

singletonVars == <<instance, isCreating, heap, log>>
asyncVars == <<phase, pending, results>>
threadVars == <<frames>>
registryVars == <<instances, last, invoked, completed, returned, onlyNew, dropped, swept>>
lazyVars == <<lazyInstance, clock, lazyLog>>
builderVars == <<builder, passed, built, lastCall>>
directorVars == <<dirBuilder, computers, dirLog>>
variantVars == <<variant, variantCall>>
factoryVars == <<creators, products, registered, factoryCall>>
bypassVars == <<direct>>
genericVars == <<generic, genericCall>>
reentrantVars == <<stack, reLog>>
moreVars == <<directorVars, variantVars, factoryVars, bypassVars, genericVars, reentrantVars>>

vars == <<instance, isCreating, heap, log, phase, pending, results, frames,
          instances, last, invoked, completed, returned, onlyNew, dropped, swept,
          lazyInstance, clock, lazyLog, builder, passed, built, lastCall,
          dirBuilder, computers, dirLog, variant, variantCall, creators, products,
          registered, factoryCall,
          direct, generic, genericCall, stack, reLog>>

Callers == 1..NCallers
Threads == 1..NThreads

(* ------------------------------ values -------------------------------- *)

Undefined == [tag |-> "undefined"]
Null == [tag |-> "null"]
Obj(n) == [tag |-> "object", id |-> n]

\* JavaScript truthiness of the values a slot holds: undefined and null are
\* falsy, every object reference is truthy.
Truthy(v) == v.tag = "object"

\* A string value.
Str(x) == [tag |-> "string", val |-> x]

\* ToBoolean, the test that !v and if (v) apply: undefined, null and the
\* empty string are falsy, every other string and every object is truthy.
ToBoolean(v) ==
    CASE v.tag = "string" -> v.val # ""
      [] v.tag = "object" -> TRUE
      [] OTHER -> FALSE

\* The error of the Singleton constructor.
ForbiddenMsg == "Cannot instantiate Singleton directly. Use getInstance() instead."

\* The fields of a constructed Singleton (all readonly).
SingletonFields == [class |-> "Singleton", name |-> "Singleton", category |-> "Creational"]

(* ----------------------------- Singleton ------------------------------ *)

\* The static state of the program as one record, the argument of the pure
\* operators below.
Statics == [instance |-> instance, isCreating |-> isCreating, heap |-> heap]

\* new Singleton(): the constructor throws unless isCreating is set;
\* otherwise the new object joins the heap.  (An object whose constructor
\* throws is unreachable and is not kept in the heap.)
NewSingleton_ReturnsExisting(s) ==
    IF ~s.isCreating
    THEN [threw |-> TRUE, error |-> ForbiddenMsg, obj |-> Undefined, heap |-> s.heap]
    ELSE IF Truthy(s.instance)
    THEN [threw |-> FALSE, error |-> "", obj |-> s.instance, heap |-> s.heap]
    ELSE [threw |-> FALSE, error |-> "", obj |-> Obj(Len(s.heap) + 1),
          heap |-> Append(s.heap, SingletonFields)]

NewSingleton(s) ==
    IF ~s.isCreating
    THEN [threw |-> TRUE, error |-> ForbiddenMsg, obj |-> Undefined, heap |-> s.heap]
    ELSE [threw |-> FALSE, error |-> "", obj |-> Obj(Len(s.heap) + 1),
          heap |-> Append(s.heap, SingletonFields)]

\* The test of line 35: Singleton.instance is unset (falsy).
Unset_Always(s) == TRUE

Unset(s) == ~Truthy(s.instance)

\* Line 38: Singleton.isCreating = false.
ClearCreating_Forgotten(s) == s

ClearCreating(s) == [s EXCEPT !.isCreating = FALSE]

\* Line 37, the assignment: Singleton.instance = <the new object>.
StoreInstance_Dropped(s, v) == s

StoreInstance(s, v) == [s EXCEPT !.instance = v]

\* The frame of one Singleton.getInstance() call at its entry.
EntryFrame == [pc |-> "L35", tmp |-> Undefined, ret |-> Undefined,
               observedEmpty |-> FALSE, ctorRuns |-> 0, error |-> ""]

\* The frame of a thread that has not called getInstance() yet.
IdleFrame == [EntryFrame EXCEPT !.pc = "idle"]

\* A call has ended: it returned or it threw.
Ended(f) == f.pc \in {"done", "threw"}

\* One step of Singleton.getInstance(), by source line.  s is the static
\* state, f the frame of the call; the result is the pair after the step.
GetInstanceStep(s, f) ==
    CASE f.pc = "L35" ->
           IF Unset(s)
           THEN [s |-> s, f |-> [f EXCEPT !.pc = "L36", !.observedEmpty = TRUE]]
           ELSE [s |-> s, f |-> [f EXCEPT !.pc = "L40"]]
      [] f.pc = "L36" ->
           [s |-> [s EXCEPT !.isCreating = TRUE], f |-> [f EXCEPT !.pc = "L37new"]]
      [] f.pc = "L37new" ->
           LET c == NewSingleton(s) IN
           IF c.threw
           THEN [s |-> s, f |-> [f EXCEPT !.pc = "threw", !.error = c.error]]
           ELSE [s |-> [s EXCEPT !.heap = c.heap],
                 f |-> [f EXCEPT !.pc = "L37store", !.tmp = c.obj,
                                 !.ctorRuns = f.ctorRuns + 1]]
      [] f.pc = "L37store" ->
           [s |-> StoreInstance(s, f.tmp), f |-> [f EXCEPT !.pc = "L38"]]
      [] f.pc = "L38" ->
           [s |-> ClearCreating(s), f |-> [f EXCEPT !.pc = "L40"]]
      [] f.pc = "L40" ->
           [s |-> s, f |-> [f EXCEPT !.pc = "done", !.ret = s.instance]]
      [] OTHER -> [s |-> s, f |-> f]

\* Singleton.getInstance() run to its end without interruption.
RECURSIVE RunGetInstance(_, _)
RunGetInstance(s, f) ==
    IF Ended(f) THEN [s |-> s, f |-> f]
    ELSE LET n == GetInstanceStep(s, f) IN RunGetInstance(n.s, n.f)

GetInstanceRun(s) == RunGetInstance(s, EntryFrame)

\* Singleton.reset().
ResetRun_Noop(s) == s

ResetRun_Creating(s) == [s EXCEPT !.instance = Null, !.isCreating = TRUE]

ResetRun(s) == [s EXCEPT !.instance = Null]

\* A log record: the operation, what it returned, whether it threw and with
\* what, how many constructor runs completed in it, and Singleton.instance
\* and Singleton.isCreating when it ended.
Entry(op, ret, threw, error, ctorRuns, s) ==
    [op |-> op, ret |-> ret, threw |-> threw, error |-> error,
     ctorRuns |-> ctorRuns, after |-> s.instance, creating |-> s.isCreating]

Install(s) ==
    /\ instance' = s.instance
    /\ isCreating' = s.isCreating
    /\ heap' = s.heap

\* A caller calls Singleton.getInstance().
GetInstance ==
    /\ Len(log) < MaxSingletonOps
    /\ LET r == GetInstanceRun(Statics) IN
       /\ Install(r.s)
       /\ log' = Append(log, Entry("getInstance", r.f.ret, r.f.pc = "threw",
                                   r.f.error, r.f.ctorRuns, r.s))
    /\ UNCHANGED <<asyncVars, threadVars, registryVars, lazyVars, builderVars, moreVars>>

\* A caller calls Singleton.reset().
Reset ==
    /\ Len(log) < MaxSingletonOps
    /\ LET s == ResetRun(Statics) IN
       /\ Install(s)
       /\ log' = Append(log, Entry("reset", Undefined, FALSE, "", 0, s))
    /\ UNCHANGED <<asyncVars, threadVars, registryVars, lazyVars, builderVars, moreVars>>

\* A caller invokes the constructor directly, outside getInstance().
DirectNew ==
    /\ Len(log) < MaxSingletonOps
    /\ LET c == NewSingleton(Statics)
           s == [Statics EXCEPT !.heap = c.heap] IN
       /\ Install(s)
       /\ log' = Append(log, Entry("new", c.obj, c.threw, c.error,
                                   IF c.threw THEN 0 ELSE 1, s))
    /\ UNCHANGED <<asyncVars, threadVars, registryVars, lazyVars, builderVars, moreVars>>

(* ---------- concurrent access: callbacks that run to completion -------- *)

\* The states earlier callers leave behind: any sequential use of Singleton.
Setup ==
    /\ phase = "setup"
    /\ Len(log) < MaxSetupOps
    /\ (GetInstance \/ Reset \/ DirectNew)

\* The test's start: Singleton.reset(), then one callback per caller is
\* scheduled with Promise.resolve().then(() => Singleton.getInstance()).
StartConcurrent ==
    /\ phase = "setup"
    /\ LET s == ResetRun(Statics) IN
       /\ Install(s)
       /\ log' = Append(log, Entry("reset", Undefined, FALSE, "", 0, s))
    /\ phase' = "scheduled"
    /\ pending' = Callers
    /\ results' = [c \in Callers |-> IdleFrame]
    /\ UNCHANGED <<threadVars, registryVars, lazyVars, builderVars, moreVars>>

\* The event loop runs one scheduled callback: its getInstance() call runs
\* to completion, and the promise resolves with what it returned.
RunCallback(c) ==
    /\ phase = "scheduled"
    /\ c \in pending
    /\ LET r == GetInstanceRun(Statics) IN
       /\ Install(r.s)
       /\ log' = Append(log, Entry("getInstance", r.f.ret, r.f.pc = "threw",
                                   r.f.error, r.f.ctorRuns, r.s))
       /\ results' = [results EXCEPT ![c] = r.f]
    /\ pending' = pending \ {c}
    /\ UNCHANGED <<phase, threadVars, registryVars, lazyVars, builderVars, moreVars>>

\* Promise.all resolves once every callback has run.
AwaitAll ==
    /\ phase = "scheduled"
    /\ pending = {}
    /\ phase' = "settled"
    /\ UNCHANGED <<singletonVars, pending, results, threadVars, registryVars, lazyVars, builderVars, moreVars>>

NextAsync ==
    \/ Setup
    \/ StartConcurrent
    \/ \E c \in Callers : RunCallback(c)
    \/ AwaitAll

(* ------------- parallel threads: getInstance() step by step ----------- *)

\* Thread t takes the next step of its getInstance() call.
Advance(t) ==
    /\ LET n == GetInstanceStep(Statics, frames[t]) IN
       /\ Install(n.s)
       /\ frames' = [frames EXCEPT ![t] = n.f]
    /\ UNCHANGED <<log, asyncVars, registryVars, lazyVars, builderVars, moreVars>>

\* Thread t calls Singleton.getInstance().
Call(t) ==
    /\ frames[t].pc = "idle"
    /\ frames' = [frames EXCEPT ![t] = EntryFrame]
    /\ UNCHANGED <<singletonVars, asyncVars, registryVars, lazyVars, builderVars, moreVars>>

TestInstance(t) ==
    /\ frames[t].pc = "L35"
    /\ Advance(t)

SetCreating(t) ==
    /\ frames[t].pc = "L36"
    /\ Advance(t)

Construct(t) ==
    /\ frames[t].pc = "L37new"
    /\ Advance(t)

Store(t) ==
    /\ frames[t].pc = "L37store"
    /\ Advance(t)

Clear(t) ==
    /\ frames[t].pc = "L38"
    /\ Advance(t)

Return(t) ==
    /\ frames[t].pc = "L40"
    /\ Advance(t)


\* new Singleton() called from outside getInstance(), by a thread that runs
\* beside the callers of getInstance().
DirectConstructRun_Guarded(s) ==
    [threw |-> TRUE, error |-> ForbiddenMsg, obj |-> Undefined, heap |-> s.heap]

DirectConstructRun(s) == NewSingleton(s)

\* The threads whose getInstance() call is between 'isCreating = true' and
\* 'isCreating = false'.
Constructing == {t \in Threads : frames[t].pc \in {"L37new", "L37store", "L38"}}

\* Another thread invokes the constructor directly, between two steps of
\* the threads that run getInstance().
DirectConstruct ==
    /\ Len(direct) < MaxDirect
    /\ LET c == DirectConstructRun(Statics) IN
       /\ heap' = c.heap
       /\ direct' = Append(direct, [obj |-> c.obj, threw |-> c.threw, error |-> c.error,
                                    creating |-> isCreating, during |-> Constructing])
    /\ UNCHANGED <<instance, isCreating, log, asyncVars, threadVars, registryVars, lazyVars,
                   builderVars, directorVars, variantVars, factoryVars, genericVars,
                   reentrantVars>>

NextThreads ==
    \E t \in Threads :
        \/ Call(t)
        \/ TestInstance(t)
        \/ SetCreating(t)
        \/ Construct(t)
        \/ Store(t)
        \/ Clear(t)
        \/ Return(t)

NextBypass ==
    \/ NextThreads
    \/ DirectConstruct

(* -------------------------- SingletonRegistry ------------------------ *)

\* The keys callers use (the tests: one per registered class).
TestKey == "TestSingleton"
AnotherKey == "AnotherSingleton"
Keys == {TestKey, AnotherKey}

\* The values of the field a registered object carries (TestSingleton.value
\* is 'test' when constructed; the test sets it to 'modified').
Vals == {"test", "modified"}

\* The fields of an object a factory constructs.
TestFields == [class |-> "TestSingleton", value |-> "test"]

\* The error a failing factory throws.
FactoryError == "factory failed"

\* The factories a caller can pass, given the heap h: one that constructs a
\* new object on every invocation (() => new TestSingleton()), one that
\* throws, and for every object that exists one that returns that object
\* (() => obj).  None of them calls the registry.
Factories(h) ==
    {[kind |-> "new", obj |-> Undefined], [kind |-> "throws", obj |-> Undefined]}
        \cup {[kind |-> "existing", obj |-> Obj(i)] : i \in 1..Len(h)}

\* factory(): what it returns or throws, and the heap after it.
CallFactory(f, h) ==
    CASE f.kind = "new" ->
           [threw |-> FALSE, error |-> "", value |-> Obj(Len(h) + 1),
            heap |-> Append(h, TestFields)]
      [] f.kind = "existing" ->
           [threw |-> FALSE, error |-> "", value |-> f.obj, heap |-> h]
      [] OTHER ->
           [threw |-> TRUE, error |-> FactoryError, value |-> Undefined, heap |-> h]

\* Map.has, Map.get, Map.set, Map.delete and Map.clear on a function m.
RegHas_Never(m, k) == FALSE

RegHas(m, k) == k \in DOMAIN m

RegGet(m, k) == IF k \in DOMAIN m THEN m[k] ELSE Undefined

RegSet_Skipped(m, k, v) == m

RegSet_OneSlot(m, k, v) == [x \in Keys |-> v]

RegSet(m, k, v) == [x \in (DOMAIN m) \cup {k} |-> IF x = k THEN v ELSE m[x]]

RegDelete_All(m, k) == <<>>

RegDelete(m, k) == [x \in (DOMAIN m) \ {k} |-> m[x]]

RegClear_Noop(m) == m

RegClear(m) == <<>>

\* The registry's state as one record, the argument of the operators below.
Registry == [instances |-> instances, heap |-> heap]

\* A variant of getInstance that reserves the key before it calls the
\* factory.
RegistryGetInstanceRun_Reserving(rs, key, f) ==
    IF ~RegHas(rs.instances, key)
    THEN LET c == CallFactory(f, rs.heap) IN
         IF c.threw
         THEN [rs |-> [instances |-> RegSet(rs.instances, key, Undefined), heap |-> c.heap],
               threw |-> TRUE, error |-> c.error, ret |-> Undefined,
               invoked |-> 1, made |-> Undefined]
         ELSE LET m == RegSet(rs.instances, key, c.value) IN
              [rs |-> [instances |-> m, heap |-> c.heap],
               threw |-> FALSE, error |-> "", ret |-> RegGet(m, key),
               invoked |-> 1, made |-> c.value]
    ELSE [rs |-> rs, threw |-> FALSE, error |-> "", ret |-> RegGet(rs.instances, key),
          invoked |-> 0, made |-> Undefined]

\* SingletonRegistry.getInstance(key, factory): the state after it, what it
\* returned or threw, how often it invoked the factory, and what the
\* factory returned.
RegistryGetInstanceRun(rs, key, f) ==
    IF ~RegHas(rs.instances, key)
    THEN LET c == CallFactory(f, rs.heap) IN
         IF c.threw
         THEN [rs |-> [rs EXCEPT !.heap = c.heap],
               threw |-> TRUE, error |-> c.error, ret |-> Undefined,
               invoked |-> 1, made |-> Undefined]
         ELSE LET m == RegSet(rs.instances, key, c.value) IN
              [rs |-> [instances |-> m, heap |-> c.heap],
               threw |-> FALSE, error |-> "", ret |-> RegGet(m, key),
               invoked |-> 1, made |-> c.value]
    ELSE [rs |-> rs, threw |-> FALSE, error |-> "", ret |-> RegGet(rs.instances, key),
          invoked |-> 0, made |-> Undefined]

\* SingletonRegistry.reset(key), resetAll() and hasInstance(key).
RegistryResetRun(rs, key) == [rs EXCEPT !.instances = RegDelete(rs.instances, key)]

RegistryResetAllRun(rs) == [rs EXCEPT !.instances = RegClear(rs.instances)]

RegistryHasInstanceRun_AnyKey(rs, key) == DOMAIN rs.instances # {}

RegistryHasInstanceRun(rs, key) == RegHas(rs.instances, key)

\* The value field read through reference v (getValue()); "" when v is no
\* object.
ValueOf(h, v) == IF Truthy(v) THEN h[v.id].value ELSE ""

\* The record of a registry call; for a getInstance, replaces is the value
\* the key's last reset removed, if no getInstance for it returned since,
\* and swept tells that it is the first getInstance for the key since the
\* last resetAll().
Call_(op, key, f, ret, threw, error, n, made) ==
    [op |-> op, key |-> key, factory |-> f, ret |-> ret, threw |-> threw,
     error |-> error, invoked |-> n, made |-> made, replaces |-> Undefined,
     swept |-> FALSE]

NoFactory == [kind |-> "none", obj |-> Undefined]

\* A caller calls SingletonRegistry.getInstance(key, f).
RegistryGetInstance(key, f) ==
    /\ (f.kind = "new" /\ ~RegHas(instances, key)) => Len(heap) < MaxObjects
    /\ ~RegHas(instances, key) => invoked[key] < MaxInvocations
    /\ LET r == RegistryGetInstanceRun(Registry, key, f) IN
       /\ instances' = r.rs.instances
       /\ heap' = r.rs.heap
       /\ last' = [Call_("getInstance", key, f, r.ret, r.threw, r.error, r.invoked, r.made)
                      EXCEPT !.replaces = dropped[key], !.swept = key \in swept]
       /\ invoked' = [invoked EXCEPT ![key] = @ + r.invoked]
       /\ completed' = [completed EXCEPT ![key] =
                           IF r.invoked = 1 /\ ~r.threw THEN @ + 1 ELSE @]
       /\ returned' = [returned EXCEPT ![key] = IF r.threw THEN @ ELSE @ \cup {r.ret}]
       /\ onlyNew' = [onlyNew EXCEPT ![key] = @ /\ f.kind = "new"]
       /\ dropped' = [dropped EXCEPT ![key] = IF r.threw THEN @ ELSE Undefined]
       /\ swept' = swept \ {key}
    /\ UNCHANGED <<instance, isCreating, log, asyncVars, threadVars, lazyVars, builderVars, moreVars>>

\* A caller calls SingletonRegistry.reset(key).
RegistryReset(key) ==
    /\ LET rs == RegistryResetRun(Registry, key) IN
       /\ instances' = rs.instances
       /\ heap' = rs.heap
    /\ last' = Call_("reset", key, NoFactory, Undefined, FALSE, "", 0, Undefined)
    /\ invoked' = [invoked EXCEPT ![key] = 0]
    /\ completed' = [completed EXCEPT ![key] = 0]
    /\ returned' = [returned EXCEPT ![key] = {}]
    /\ onlyNew' = [onlyNew EXCEPT ![key] = TRUE]
    /\ dropped' = [dropped EXCEPT ![key] = RegGet(instances, key)]
    /\ UNCHANGED <<swept, instance, isCreating, log, asyncVars, threadVars, lazyVars, builderVars, moreVars>>

\* A caller calls SingletonRegistry.resetAll().
RegistryResetAll ==
    /\ LET rs == RegistryResetAllRun(Registry) IN
       /\ instances' = rs.instances
       /\ heap' = rs.heap
    /\ last' = Call_("resetAll", "", NoFactory, Undefined, FALSE, "", 0, Undefined)
    /\ invoked' = [k \in Keys |-> 0]
    /\ completed' = [k \in Keys |-> 0]
    /\ returned' = [k \in Keys |-> {}]
    /\ onlyNew' = [k \in Keys |-> TRUE]
    /\ dropped' = [k \in Keys |-> RegGet(instances, k)]
    /\ swept' = Keys
    /\ UNCHANGED <<instance, isCreating, log, asyncVars, threadVars, lazyVars, builderVars, moreVars>>

\* A caller calls SingletonRegistry.hasInstance(key).
RegistryHasInstance(key) ==
    /\ last' = Call_("hasInstance", key, NoFactory,
                     RegistryHasInstanceRun(Registry, key), FALSE, "", 0, Undefined)
    /\ UNCHANGED <<instances, heap, invoked, completed, returned, onlyNew, dropped, swept,
                   instance, isCreating, log, asyncVars, threadVars, lazyVars, builderVars, moreVars>>

\* A caller calls setValue(v) on a TestSingleton that
\* TestSingleton.getInstance() returned to it since the key's last reset.
SetValue(v) ==
    /\ \E h \in returned[TestKey] :
          /\ Truthy(h)
          /\ heap[h.id].value # v
          /\ heap' = [heap EXCEPT ![h.id].value = v]
          /\ last' = Call_("setValue", TestKey, NoFactory, h, FALSE, "", 0, Undefined)
    /\ UNCHANGED <<instances, invoked, completed, returned, onlyNew, dropped, swept,
                   instance, isCreating, log, asyncVars, threadVars, lazyVars, builderVars, moreVars>>

NextRegistry ==
    \/ \E key \in Keys : \E f \in Factories(heap) : RegistryGetInstance(key, f)
    \/ \E key \in Keys : RegistryReset(key)
    \/ RegistryResetAll
    \/ \E key \in Keys : RegistryHasInstance(key)
    \/ \E v \in Vals : SetValue(v)

(* ----------------------------- LazySingleton --------------------------- *)

\* The static field of LazySingleton, the objects and the clock as one
\* record, the argument of the operators below.
LazyStatics == [instance |-> lazyInstance, heap |-> heap, now |-> clock]

\* new Date() at clock tick t: a Date holds whole milliseconds, and the
\* clock ticks twice in one.
Millis(t) == t \div 2

\* `Created at ${new Date().toISOString()}` at clock tick t.
CreatedAt(t) == [text |-> "Created at ", iso |-> Millis(t)]

\* new LazySingleton(): the private constructor stamps the object.
NewLazySingleton(s) ==
    [obj |-> Obj(Len(s.heap) + 1),
     heap |-> Append(s.heap, [class |-> "LazySingleton", data |-> CreatedAt(s.now)])]

\* A variant of the accessor that constructs on every read.
LazyInstanceRun_Eager(s) ==
    LET c == NewLazySingleton(s) IN
    [s |-> [s EXCEPT !.instance = c.obj, !.heap = c.heap], ret |-> c.obj, constructed |-> 1]

\* static get instance(): the state after it, what it returned and how many
\* constructor runs it made.
LazyInstanceRun(s) ==
    IF s.instance.tag # "object"
    THEN LET c == NewLazySingleton(s)
             t == [s EXCEPT !.instance = c.obj, !.heap = c.heap] IN
         [s |-> t, ret |-> t.instance, constructed |-> 1]
    ELSE [s |-> s, ret |-> s.instance, constructed |-> 0]

\* LazySingleton.reset().
LazyResetRun(s) == [s EXCEPT !.instance = Null]

\* getData() through reference v.
GetData(h, v) == h[v.id].data

\* A caller reads LazySingleton.instance and calls getData() on it.
ReadInstance ==
    /\ Len(lazyLog) < MaxLazyOps
    /\ LET r == LazyInstanceRun(LazyStatics) IN
       /\ lazyInstance' = r.s.instance
       /\ heap' = r.s.heap
       /\ lazyLog' = Append(lazyLog, [op |-> "instance", ret |-> r.ret,
                                      constructed |-> r.constructed,
                                      data |-> GetData(r.s.heap, r.ret)])
    /\ UNCHANGED <<clock, instance, isCreating, log, asyncVars, threadVars,
                   registryVars, builderVars, moreVars>>

\* A caller calls LazySingleton.reset().
LazyReset ==
    /\ Len(lazyLog) < MaxLazyOps
    /\ LET s == LazyResetRun(LazyStatics) IN
       /\ lazyInstance' = s.instance
       /\ heap' = s.heap
    /\ lazyLog' = Append(lazyLog, [op |-> "reset", ret |-> Undefined,
                                   constructed |-> 0, data |-> CreatedAt(0)])
    /\ UNCHANGED <<clock, instance, isCreating, log, asyncVars, threadVars,
                   registryVars, builderVars, moreVars>>

\* Time passes.
Tick ==
    /\ clock < MaxClock
    /\ clock' = clock + 1
    /\ UNCHANGED <<lazyInstance, lazyLog, singletonVars, asyncVars, threadVars,
                   registryVars, builderVars, moreVars>>

NextLazy ==
    \/ ReadInstance
    \/ LazyReset
    \/ Tick

(* ------------------------ ConcreteComputerBuilder ---------------------- *)

\* The fields of the builder, the required ones in declaration order.
RequiredFields == <<"cpu", "ram", "storage">>
OptionalFields == <<"gpu", "powerSupply", "motherboard">>
Required == {RequiredFields[i] : i \in DOMAIN RequiredFields}
Optional == {OptionalFields[i] : i \in DOMAIN OptionalFields}
Fields == Required \cup Optional

\* The setters and the field each assigns.
FieldOf ==
    [setCPU |-> "cpu", setRAM |-> "ram", setStorage |-> "storage", setGPU |-> "gpu",
     setPowerSupply |-> "powerSupply", setMotherboard |-> "motherboard"]
SetterNames == DOMAIN FieldOf

\* The strings callers pass to the setters: the empty string and another.
Args == {Str(""), Str("A")}

\* The builder the calls are made on.
This == Obj(0)

\* new ConcreteComputerBuilder(): the field initialisers.
NewBuilder ==
    [cpu |-> Str(""), ram |-> Str(""), storage |-> Str(""),
     gpu |-> Undefined, powerSupply |-> Undefined, motherboard |-> Undefined]

\* The setters: the builder's fields after the call, and what it returns.
SetCPU(b, cpu) == [b |-> [b EXCEPT !.cpu = cpu], ret |-> This]
SetRAM(b, ram) == [b |-> [b EXCEPT !.ram = ram], ret |-> This]
SetStorage_Validating(b, storage) ==
    [b |-> IF ToBoolean(storage) THEN [b EXCEPT !.storage = storage] ELSE b, ret |-> This]
SetStorage(b, storage) == [b |-> [b EXCEPT !.storage = storage], ret |-> This]
SetGPU(b, gpu) == [b |-> [b EXCEPT !.gpu = gpu], ret |-> This]
SetPowerSupply(b, powerSupply) == [b |-> [b EXCEPT !.powerSupply = powerSupply], ret |-> This]
SetMotherboard(b, motherboard) == [b |-> [b EXCEPT !.motherboard = motherboard], ret |-> This]

\* The call b.name(v) of a setter.
BuilderSetRun(b, name, v) ==
    CASE name = "setCPU" -> SetCPU(b, v)
      [] name = "setRAM" -> SetRAM(b, v)
      [] name = "setStorage" -> SetStorage(b, v)
      [] name = "setGPU" -> SetGPU(b, v)
      [] name = "setPowerSupply" -> SetPowerSupply(b, v)
      [] name = "setMotherboard" -> SetMotherboard(b, v)

\* this.features.push(v) if v is truthy.
PushIf(features, v) == IF ToBoolean(v) THEN Append(features, v) ELSE features

\* new Computer(cpu, ram, storage, gpu, powerSupply, motherboard).
NewComputer(cpu, ram, storage, gpu, powerSupply, motherboard) ==
    [name |-> "Custom Computer",
     features |-> PushIf(PushIf(PushIf(<<cpu, ram, storage>>, gpu), powerSupply), motherboard),
     cpu |-> cpu, ram |-> ram, storage |-> storage,
     gpu |-> gpu, powerSupply |-> powerSupply, motherboard |-> motherboard]

\* The message of the error build() throws.
RequiredMsg == "CPU, RAM, and Storage are required"

\* What a call that constructs no Computer made.
NoComputer == Undefined

\* A variant of build() that keeps one Computer object and hands out a
\* reference to it from every call.
BuilderBuildRun_Shared(b, n) ==
    IF ~ToBoolean(b.cpu) \/ ~ToBoolean(b.ram) \/ ~ToBoolean(b.storage)
    THEN [b |-> b, threw |-> TRUE, error |-> RequiredMsg, ret |-> Undefined,
          made |-> NoComputer]
    ELSE [b |-> b, threw |-> FALSE, error |-> "", ret |-> Obj(1),
          made |-> NewComputer(b.cpu, b.ram, b.storage, b.gpu, b.powerSupply, b.motherboard)]

\* A variant of build() that resets the builder after it assembled the
\* product.
BuilderBuildRun_Resetting(b, n) ==
    IF ~ToBoolean(b.cpu) \/ ~ToBoolean(b.ram) \/ ~ToBoolean(b.storage)
    THEN [b |-> b, threw |-> TRUE, error |-> RequiredMsg, ret |-> Undefined,
          made |-> NoComputer]
    ELSE [b |-> NewBuilder, threw |-> FALSE, error |-> "", ret |-> Obj(n + 1),
          made |-> NewComputer(b.cpu, b.ram, b.storage, b.gpu, b.powerSupply, b.motherboard)]

\* build() on a builder with fields b when n Computers exist: what it throws,
\* or the Computer it constructs and the reference it returns; and the
\* builder's fields after it.
BuilderBuildRun(b, n) ==
    IF ~ToBoolean(b.cpu) \/ ~ToBoolean(b.ram) \/ ~ToBoolean(b.storage)
    THEN [b |-> b, threw |-> TRUE, error |-> RequiredMsg, ret |-> Undefined,
          made |-> NoComputer]
    ELSE [b |-> b, threw |-> FALSE, error |-> "", ret |-> Obj(n + 1),
          made |-> NewComputer(b.cpu, b.ram, b.storage, b.gpu, b.powerSupply, b.motherboard)]

\* A variant of reset() that clears the required fields only.
BuilderResetRun_RequiredOnly(b) ==
    [b |-> [b EXCEPT !.cpu = Str(""), !.ram = Str(""), !.storage = Str("")],
     ret |-> This]

\* reset(): the builder's fields after the call, and what it returns.
BuilderResetRun(b) ==
    [b |-> [cpu |-> Str(""), ram |-> Str(""), storage |-> Str(""),
            gpu |-> Str(""), powerSupply |-> Str(""), motherboard |-> Str("")],
     ret |-> This]

\* The required fields build() finds missing in a builder with fields b.
Missing(b) == {f \in Required : ~ToBoolean(b[f])}

\* The record of a call on the builder: the method, its argument, what the
\* call returned or threw, and the Computer it constructed; prev is, for a
\* setter, the value the assigned field held before, and for a build(), the
\* Computer the call before it returned if that was a build() too.  After a
\* build() that failed, missing holds the
\* required fields that were missing and that no setter was called for yet,
\* as long as no other call is made (recovering); retry marks the build()
\* made when a setter was called for each of them.
BuilderCall(op, arg, prev, ret, threw, error, made) ==
    [op |-> op, arg |-> arg, prev |-> prev, ret |-> ret, threw |-> threw,
     error |-> error, made |-> made, missing |-> {}, recovering |-> FALSE,
     retry |-> FALSE]

\* A caller calls one of the setters with the argument v.
BuilderSet(name, v) ==
    /\ LET r == BuilderSetRun(builder, name, v)
           f == FieldOf[name]
           fixes == lastCall.recovering /\ f \in lastCall.missing IN
       /\ builder' = r.b
       /\ passed' = [passed EXCEPT ![f] = v]
       /\ lastCall' = [BuilderCall(name, v, builder[f], r.ret, FALSE, "", NoComputer)
                          EXCEPT !.recovering = fixes,
                                 !.missing = IF fixes THEN lastCall.missing \ {f} ELSE {}]
    /\ UNCHANGED <<built, singletonVars, asyncVars, threadVars, registryVars, lazyVars, moreVars>>

\* A caller calls build().
BuilderBuild ==
    /\ Missing(builder) = {} => built < MaxComputers
    /\ LET r == BuilderBuildRun(builder, built) IN
       /\ builder' = r.b
       /\ built' = IF r.threw THEN built ELSE built + 1
       /\ lastCall' = [BuilderCall("build", Undefined,
                                   IF lastCall.op = "build" THEN lastCall.ret ELSE Undefined,
                                   r.ret, r.threw, r.error, r.made)
                          EXCEPT !.recovering = r.threw, !.missing = Missing(builder),
                                 !.retry = /\ lastCall.op \in SetterNames
                                           /\ lastCall.recovering
                                           /\ lastCall.missing = {}]
    /\ UNCHANGED <<passed, singletonVars, asyncVars, threadVars, registryVars, lazyVars, moreVars>>

\* A caller calls reset().
BuilderReset ==
    /\ LET r == BuilderResetRun(builder) IN
       /\ builder' = r.b
       /\ lastCall' = BuilderCall("reset", Undefined, Undefined, r.ret, FALSE, "", NoComputer)
    /\ passed' = [f \in Fields |-> Undefined]
    /\ UNCHANGED <<built, singletonVars, asyncVars, threadVars, registryVars, lazyVars, moreVars>>

NextBuilder ==
    \/ \E name \in SetterNames : \E v \in Args : BuilderSet(name, v)
    \/ BuilderBuild
    \/ BuilderReset

\* ---------------------------------------------------------------------
\* ComputerDirector: three recipes over the builder it was constructed with.
\* ---------------------------------------------------------------------

RecipeNames == {"buildGamingComputer", "buildOfficeComputer", "buildServerComputer"}

\* A variant of buildOfficeComputer() that does not reset the builder first.
BuildOfficeComputer_NoReset(b, n) ==
    LET b1 == SetCPU(b, Str("Intel i5-11400")).b
        b2 == SetRAM(b1, Str("16GB DDR4")).b
        b3 == SetStorage(b2, Str("512GB SSD")).b
        b4 == SetMotherboard(b3, Str("MSI B560M Pro")).b
    IN  BuilderBuildRun(b4, n)

\* buildGamingComputer() on a director whose builder has the fields b, when n
\* Computers exist: the outcome of the build() that ends the chain.
BuildGamingComputer(b, n) ==
    LET b0 == BuilderResetRun(b).b
        b1 == SetCPU(b0, Str("Intel i9-11900K")).b
        b2 == SetRAM(b1, Str("32GB DDR4")).b
        b3 == SetStorage(b2, Str("1TB NVMe SSD")).b
        b4 == SetGPU(b3, Str("RTX 3080")).b
        b5 == SetPowerSupply(b4, Str("850W Gold")).b
        b6 == SetMotherboard(b5, Str("ASUS ROG Strix Z590-E")).b
    IN  BuilderBuildRun(b6, n)

\* buildOfficeComputer().
BuildOfficeComputer(b, n) ==
    LET b0 == BuilderResetRun(b).b
        b1 == SetCPU(b0, Str("Intel i5-11400")).b
        b2 == SetRAM(b1, Str("16GB DDR4")).b
        b3 == SetStorage(b2, Str("512GB SSD")).b
        b4 == SetMotherboard(b3, Str("MSI B560M Pro")).b
    IN  BuilderBuildRun(b4, n)

\* buildServerComputer().
BuildServerComputer(b, n) ==
    LET b0 == BuilderResetRun(b).b
        b1 == SetCPU(b0, Str("AMD EPYC 7742")).b
        b2 == SetRAM(b1, Str("128GB DDR4 ECC")).b
        b3 == SetStorage(b2, Str("2TB NVMe SSD")).b
        b4 == SetPowerSupply(b3, Str("1200W Platinum")).b
        b5 == SetMotherboard(b4, Str("Supermicro H12SSL-i")).b
    IN  BuilderBuildRun(b5, n)

RecipeRun(recipe, b, n) ==
    CASE recipe = "buildGamingComputer" -> BuildGamingComputer(b, n)
      [] recipe = "buildOfficeComputer" -> BuildOfficeComputer(b, n)
      [] recipe = "buildServerComputer" -> BuildServerComputer(b, n)

\* The Computer objects after a build(): the object the returned reference
\* names holds what the constructor assigned.
Allocate(objects, r) ==
    IF r.threw THEN objects
    ELSE IF r.ret.id = Len(objects) + 1 THEN Append(objects, r.made)
    ELSE [objects EXCEPT ![r.ret.id] = r.made]

\* The record of a call on the director or on its builder: what it returned
\* or threw, and the fields the returned Computer had when the call returned.
DirectorCall(op, arg, ret, threw, made) ==
    [op |-> op, arg |-> arg, ret |-> ret, threw |-> threw, made |-> made]

\* A caller calls one of the director's recipes.
Recipe(recipe) ==
    /\ Len(dirLog) < MaxDirectorOps
    /\ LET r == RecipeRun(recipe, dirBuilder, Len(computers)) IN
       /\ dirBuilder' = r.b
       /\ computers' = Allocate(computers, r)
       /\ dirLog' = Append(dirLog, DirectorCall(recipe, Undefined, r.ret, r.threw, r.made))
    /\ UNCHANGED <<singletonVars, asyncVars, threadVars, registryVars, lazyVars, builderVars,
                   variantVars, factoryVars, bypassVars, genericVars, reentrantVars>>

\* A caller that holds the director's builder calls one of its setters.
DirectorBuilderSet(name, v) ==
    /\ Len(dirLog) < MaxDirectorOps
    /\ LET r == BuilderSetRun(dirBuilder, name, v) IN
       /\ dirBuilder' = r.b
       /\ dirLog' = Append(dirLog, DirectorCall(name, v, r.ret, FALSE, NoComputer))
    /\ UNCHANGED <<computers, singletonVars, asyncVars, threadVars, registryVars, lazyVars,
                   builderVars, variantVars, factoryVars, bypassVars, genericVars,
                   reentrantVars>>

\* A caller that holds the director's builder calls its build().
DirectorBuilderBuild ==
    /\ Len(dirLog) < MaxDirectorOps
    /\ LET r == BuilderBuildRun(dirBuilder, Len(computers)) IN
       /\ dirBuilder' = r.b
       /\ computers' = Allocate(computers, r)
       /\ dirLog' = Append(dirLog, DirectorCall("build", Undefined, r.ret, r.threw, r.made))
    /\ UNCHANGED <<singletonVars, asyncVars, threadVars, registryVars, lazyVars, builderVars,
                   variantVars, factoryVars, bypassVars, genericVars, reentrantVars>>

\* A caller that holds the director's builder calls its reset().
DirectorBuilderReset ==
    /\ Len(dirLog) < MaxDirectorOps
    /\ LET r == BuilderResetRun(dirBuilder) IN
       /\ dirBuilder' = r.b
       /\ dirLog' = Append(dirLog, DirectorCall("reset", Undefined, r.ret, FALSE, NoComputer))
    /\ UNCHANGED <<computers, singletonVars, asyncVars, threadVars, registryVars, lazyVars,
                   builderVars, variantVars, factoryVars, bypassVars, genericVars,
                   reentrantVars>>

NextDirector ==
    \/ \E recipe \in RecipeNames : Recipe(recipe)
    \/ \E name \in SetterNames : \E v \in Args : DirectorBuilderSet(name, v)
    \/ DirectorBuilderBuild
    \/ DirectorBuilderReset

\* ---------------------------------------------------------------------
\* ProductFactory and ParameterizedFactory.
\* ---------------------------------------------------------------------

\* The arguments create() of the ProductFactory is called with.
ProductTypes == {Str("A"), Str("B"), Str("C"), Str("a")}

\* The types and the creator functions a ParameterizedFactory is used with.
Types == {Str("type1"), Str("type2"), Str("unknown")}
Registrable == {Str("type1"), Str("type2")}
CreatorNames == {"f", "g"}
Fn(c) == [tag |-> "object", creator |-> c]

\* `${type}` for a string.
Template(v) == v.val

\* The text of the two errors: a fixed prefix followed by the type.
UnknownProductType(type) == [text |-> "Unknown product type: ", type |-> Template(type)]
NoCreatorRegistered(type) == [text |-> "No creator registered for type: ", type |-> Template(type)]

ConcreteProductA == [class |-> "ConcreteProductA", name |-> "Product A", price |-> 100,
                     category |-> "Electronics"]
ConcreteProductB == [class |-> "ConcreteProductB", name |-> "Product B", price |-> 200,
                     category |-> "Clothing"]

\* The outcome of a call that constructs nothing and throws nothing.
NoResult == [threw |-> FALSE, error |-> Undefined, ret |-> Undefined, calls |-> <<>>]

\* new C() when the objects in h exist: the reference and the objects after.
New(h, fields) == [ret |-> Obj(Len(h) + 1), heap |-> Append(h, fields)]

\* A variant of ProductFactory.create(type) that ignores the case of the
\* type.
ProductFactoryCreate_AnyCase(type, h) ==
    CASE type \in {Str("A"), Str("a")} ->
             [NoResult EXCEPT !.ret = New(h, ConcreteProductA).ret]
                 @@ [heap |-> New(h, ConcreteProductA).heap]
      [] type = Str("B") ->
             [NoResult EXCEPT !.ret = New(h, ConcreteProductB).ret]
                 @@ [heap |-> New(h, ConcreteProductB).heap]
      [] OTHER ->
             [NoResult EXCEPT !.threw = TRUE, !.error = UnknownProductType(type)]
                 @@ [heap |-> h]

\* ProductFactory.create(type) when the objects in h exist.
ProductFactoryCreate(type, h) ==
    CASE type = Str("A") ->
             [NoResult EXCEPT !.ret = New(h, ConcreteProductA).ret]
                 @@ [heap |-> New(h, ConcreteProductA).heap]
      [] type = Str("B") ->
             [NoResult EXCEPT !.ret = New(h, ConcreteProductB).ret]
                 @@ [heap |-> New(h, ConcreteProductB).heap]
      [] OTHER ->
             [NoResult EXCEPT !.threw = TRUE, !.error = UnknownProductType(type)]
                 @@ [heap |-> h]

\* Map.get, Map.set and Map.keys on a Map kept as its entries in insertion
\* order.
Position(m, key) == {i \in DOMAIN m : m[i].key = key}
MapGet(m, key) ==
    IF Position(m, key) = {} THEN Undefined
    ELSE m[CHOOSE i \in Position(m, key) : TRUE].value

\* A variant of Map.set that keeps the value of a key that is present.
MapSet_KeepFirst(m, key, value) ==
    IF Position(m, key) = {} THEN Append(m, [key |-> key, value |-> value])
    ELSE m

MapSet(m, key, value) ==
    IF Position(m, key) = {} THEN Append(m, [key |-> key, value |-> value])
    ELSE [i \in DOMAIN m |-> IF m[i].key = key THEN [key |-> key, value |-> value] ELSE m[i]]

MapKeys(m) == [i \in DOMAIN m |-> m[i].key]

\* Calling the creator function c when the objects in h exist: it
\* constructs an object of its own.
CallCreator(c, h) == New(h, [class |-> "Object", name |-> c.creator])

\* ParameterizedFactory.register(type, creator).
Register(m, type, creator) == MapSet(m, type, creator)

\* ParameterizedFactory.create(type) when the objects in h exist.
Create(m, type, h) ==
    LET creator == MapGet(m, type) IN
    IF ~ToBoolean(creator)
    THEN [NoResult EXCEPT !.threw = TRUE, !.error = NoCreatorRegistered(type)]
             @@ [heap |-> h]
    ELSE [NoResult EXCEPT !.ret = CallCreator(creator, h).ret, !.calls = <<creator>>]
             @@ [heap |-> CallCreator(creator, h).heap]

\* ParameterizedFactory.getAvailableTypes().
GetAvailableTypes(m) == MapKeys(m)

\* The record of a factory call: the method, its arguments, its outcome and
\* the Map and the number of objects the call found.
FactoryCall(op, type, arg, r, before) ==
    [op |-> op, type |-> type, arg |-> arg, ret |-> r.ret, threw |-> r.threw,
     error |-> r.error, calls |-> r.calls, before |-> before, existing |-> Len(products)]

\* A caller calls create(type) on a ProductFactory.
CreateProduct(type) ==
    /\ Len(products) < MaxProducts
    /\ LET r == ProductFactoryCreate(type, products) IN
       /\ products' = r.heap
       /\ factoryCall' = FactoryCall("ProductFactory.create", type, Undefined, r, creators)
    /\ UNCHANGED <<creators, registered, singletonVars, asyncVars, threadVars, registryVars,
                   lazyVars, builderVars, directorVars, variantVars, bypassVars, genericVars,
                   reentrantVars>>

\* A caller registers the creator function named c for a type.
RegisterCreator(type, c) ==
    /\ creators' = Register(creators, type, Fn(c))
    /\ registered' =
          [order |-> IF \E i \in DOMAIN registered.order : registered.order[i] = type
                     THEN registered.order ELSE Append(registered.order, type),
           latest |-> [t \in DOMAIN registered.latest \cup {type} |->
                          IF t = type THEN Fn(c) ELSE registered.latest[t]]]
    /\ factoryCall' = FactoryCall("register", type, Fn(c), NoResult, creators)
    /\ UNCHANGED <<products, singletonVars, asyncVars, threadVars, registryVars,
                   lazyVars, builderVars, directorVars, variantVars, bypassVars, genericVars,
                   reentrantVars>>

\* A caller calls create(type) on the ParameterizedFactory.
CreateRegistered(type) ==
    /\ Len(products) < MaxProducts
    /\ LET r == Create(creators, type, products) IN
       /\ products' = r.heap
       /\ factoryCall' = FactoryCall("create", type, Undefined, r, creators)
    /\ UNCHANGED <<creators, registered, singletonVars, asyncVars, threadVars, registryVars,
                   lazyVars, builderVars, directorVars, variantVars, bypassVars, genericVars,
                   reentrantVars>>

\* A caller calls getAvailableTypes().
ListTypes ==
    /\ factoryCall' = FactoryCall("getAvailableTypes", Undefined, Undefined,
                                  [NoResult EXCEPT !.ret = GetAvailableTypes(creators)],
                                  creators)
    /\ UNCHANGED <<creators, products, registered, singletonVars, asyncVars, threadVars,
                   registryVars, lazyVars, builderVars, directorVars, variantVars, bypassVars,
                   genericVars, reentrantVars>>

NextFactory ==
    \/ \E type \in ProductTypes : CreateProduct(type)
    \/ \E type \in Registrable : \E c \in CreatorNames : RegisterCreator(type, c)
    \/ \E type \in Types : CreateRegistered(type)
    \/ ListTypes

\* ---------------------------------------------------------------------
\* FluentComputerBuilder and StepComputerBuilder.
\* ---------------------------------------------------------------------

VariantKinds == {"FluentComputerBuilder", "StepComputerBuilder"}

\* No builder was constructed yet.
NoVariant == [kind |-> "none", fields |-> [f \in Fields |-> Undefined]]

\* new FluentComputerBuilder(): computer = {}, every property is missing.
NewFluentComputerBuilder ==
    [kind |-> "FluentComputerBuilder", fields |-> [f \in Fields |-> Undefined]]

\* StepComputerBuilder.create(): the required fields are '', the optional
\* ones undefined.
NewStepComputerBuilder ==
    [kind |-> "StepComputerBuilder",
     fields |-> [f \in Fields |-> IF f \in Required THEN Str("") ELSE Undefined]]

\* The setter of the field f, of either class: one assignment, returns this.
VariantSetRun(b, f, v) == [b |-> [b EXCEPT !.fields[f] = v], ret |-> This]

\* A variant of FluentComputerBuilder.build() that starts the next product
\* from an empty object.
FluentBuildRun_Clearing(b, n) ==
    LET c == b.fields IN
    IF ~ToBoolean(c.cpu) \/ ~ToBoolean(c.ram) \/ ~ToBoolean(c.storage)
    THEN [b |-> b, threw |-> TRUE, error |-> RequiredMsg, ret |-> Undefined,
          made |-> NoComputer]
    ELSE [b |-> NewFluentComputerBuilder, threw |-> FALSE, error |-> "", ret |-> Obj(n + 1),
          made |-> NewComputer(c.cpu, c.ram, c.storage, c.gpu, c.powerSupply, c.motherboard)]

\* FluentComputerBuilder.build() when n Computers exist.
FluentBuildRun(b, n) ==
    LET c == b.fields IN
    IF ~ToBoolean(c.cpu) \/ ~ToBoolean(c.ram) \/ ~ToBoolean(c.storage)
    THEN [b |-> b, threw |-> TRUE, error |-> RequiredMsg, ret |-> Undefined,
          made |-> NoComputer]
    ELSE [b |-> b, threw |-> FALSE, error |-> "", ret |-> Obj(n + 1),
          made |-> NewComputer(c.cpu, c.ram, c.storage, c.gpu, c.powerSupply, c.motherboard)]

\* StepComputerBuilder.build() when n Computers exist.
StepBuildRun(b, n) ==
    IF ~ToBoolean(b.fields.cpu) \/ ~ToBoolean(b.fields.ram) \/ ~ToBoolean(b.fields.storage)
    THEN [b |-> b, threw |-> TRUE, error |-> RequiredMsg, ret |-> Undefined,
          made |-> NoComputer]
    ELSE [b |-> b, threw |-> FALSE, error |-> "", ret |-> Obj(n + 1),
          made |-> NewComputer(b.fields.cpu, b.fields.ram, b.fields.storage,
                               b.fields.gpu, b.fields.powerSupply, b.fields.motherboard)]

VariantBuildRun(b, n) ==
    IF b.kind = "FluentComputerBuilder" THEN FluentBuildRun(b, n) ELSE StepBuildRun(b, n)

\* The record of a call on the builder: the method, its argument and its
\* outcome; passed holds, per field, the value last passed to its setter
\* (undefined when the setter was never called), fresh the fields whose
\* setter was called after the last build() that returned and before this
\* call ended, and builds the number of Computers built.
VariantCall(op, arg, ret, threw, error, made) ==
    [op |-> op, arg |-> arg, ret |-> ret, threw |-> threw, error |-> error, made |-> made,
     passed |-> [f \in Fields |-> Undefined], fresh |-> {}, builds |-> 0]

\* The last call was a build() that returned.
JustBuilt == variantCall.op = "build" /\ ~variantCall.threw

\* A caller constructs a builder of one of the two classes.
CreateVariant(kind) ==
    /\ variant.kind = "none"
    /\ variant' = IF kind = "FluentComputerBuilder" THEN NewFluentComputerBuilder
                  ELSE NewStepComputerBuilder
    /\ variantCall' = VariantCall("create", Undefined, This, FALSE, "", NoComputer)
    /\ UNCHANGED <<singletonVars, asyncVars, threadVars, registryVars, lazyVars, builderVars,
                   directorVars, factoryVars, bypassVars, genericVars, reentrantVars>>

\* A caller calls the setter of the field f with the argument v.
VariantSet(f, v) ==
    /\ variant.kind # "none"
    /\ LET r == VariantSetRun(variant, f, v) IN
       /\ variant' = r.b
       /\ variantCall' = [VariantCall(f, v, r.ret, FALSE, "", NoComputer)
                             EXCEPT !.passed = [variantCall.passed EXCEPT ![f] = v],
                                    !.fresh = IF JustBuilt THEN {f}
                                              ELSE variantCall.fresh \cup {f},
                                    !.builds = variantCall.builds]
    /\ UNCHANGED <<singletonVars, asyncVars, threadVars, registryVars, lazyVars, builderVars,
                   directorVars, factoryVars, bypassVars, genericVars, reentrantVars>>

\* A caller calls build().
VariantBuild ==
    /\ variant.kind # "none"
    /\ variantCall.builds < MaxVariantBuilds
    /\ LET r == VariantBuildRun(variant, variantCall.builds) IN
       /\ variant' = r.b
       /\ variantCall' = [VariantCall("build", Undefined, r.ret, r.threw, r.error, r.made)
                             EXCEPT !.passed = variantCall.passed,
                                    !.fresh = IF JustBuilt THEN {} ELSE variantCall.fresh,
                                    !.builds = IF r.threw THEN variantCall.builds
                                               ELSE variantCall.builds + 1]
    /\ UNCHANGED <<singletonVars, asyncVars, threadVars, registryVars, lazyVars, builderVars,
                   directorVars, factoryVars, bypassVars, genericVars, reentrantVars>>

NextVariants ==
    \/ \E kind \in VariantKinds : CreateVariant(kind)
    \/ \E f \in Fields : \E v \in Args : VariantSet(f, v)
    \/ VariantBuild

\* ---------------------------------------------------------------------
\* GenericBuilder<T>: build() over the two methods a subclass supplies.
\* The subclass modelled collects parts; its buildImplementation() throws
\* unless the required part was added and otherwise assembles a product from
\* the parts, and its reset() drops them.
\* ---------------------------------------------------------------------

Parts == {"a", "b", "c"}
RequiredPart == "a"
IncompleteMsg == "incomplete"

\* The state of the subclass after construction and after reset().
NewGeneric == [parts |-> {}]

\* buildImplementation() of the subclass when n products exist.
BuildImplementation(g, n) ==
    IF RequiredPart \notin g.parts
    THEN [g |-> g, threw |-> TRUE, error |-> IncompleteMsg, ret |-> Undefined,
          made |-> NoComputer]
    ELSE [g |-> g, threw |-> FALSE, error |-> "", ret |-> Obj(n + 1),
          made |-> [parts |-> g.parts]]

\* reset() of the subclass.
GenericReset(g) == [g EXCEPT !.parts = {}]

\* The outcome of a call that is not a build().
NoBuild ==
    [g |-> NewGeneric, threw |-> FALSE, error |-> "", ret |-> Undefined,
     made |-> NoComputer, trace |-> <<>>]

\* A variant of build() that resets before it builds.
GenericBuildRun_ResetFirst(g, n) ==
    LET r == BuildImplementation(GenericReset(g), n) IN
    IF r.threw
    THEN [g |-> r.g, threw |-> TRUE, error |-> r.error, ret |-> Undefined,
          made |-> NoComputer, trace |-> <<"reset", "buildImplementation">>]
    ELSE [g |-> r.g, threw |-> FALSE, error |-> "", ret |-> r.ret,
          made |-> r.made, trace |-> <<"reset", "buildImplementation">>]

\* GenericBuilder.build(): const result = this.buildImplementation();
\* this.reset(); return result.  trace lists the methods it called, in order.
GenericBuildRun(g, n) ==
    LET r == BuildImplementation(g, n) IN
    IF r.threw
    THEN [g |-> r.g, threw |-> TRUE, error |-> r.error, ret |-> Undefined,
          made |-> NoComputer, trace |-> <<"buildImplementation">>]
    ELSE [g |-> GenericReset(r.g), threw |-> FALSE, error |-> "", ret |-> r.ret,
          made |-> r.made, trace |-> <<"buildImplementation", "reset">>]

\* The record of a call on the builder: the method, its argument, its
\* outcome, the state the call found and the number of products built.
GenericCall(op, arg, r, before, builds) ==
    [op |-> op, arg |-> arg, ret |-> r.ret, threw |-> r.threw, error |-> r.error,
     made |-> r.made, trace |-> r.trace, before |-> before, builds |-> builds]

\* A caller adds a part through a method of the subclass.
GenericAdd(part) ==
    /\ generic' = [generic EXCEPT !.parts = generic.parts \cup {part}]
    /\ genericCall' = GenericCall("add", part, NoBuild, generic, genericCall.builds)
    /\ UNCHANGED <<singletonVars, asyncVars, threadVars, registryVars, lazyVars, builderVars,
                   directorVars, variantVars, factoryVars, bypassVars, reentrantVars>>

\* A caller calls build().
GenericBuild ==
    /\ genericCall.builds < MaxGenericBuilds
    /\ LET r == GenericBuildRun(generic, genericCall.builds) IN
       /\ generic' = r.g
       /\ genericCall' = GenericCall("build", Undefined, r, generic,
                                     IF r.threw THEN genericCall.builds
                                     ELSE genericCall.builds + 1)
    /\ UNCHANGED <<singletonVars, asyncVars, threadVars, registryVars, lazyVars, builderVars,
                   directorVars, variantVars, factoryVars, bypassVars, reentrantVars>>

NextGeneric ==
    \/ \E part \in Parts : GenericAdd(part)
    \/ GenericBuild

\* ---------------------------------------------------------------------
\* SingletonRegistry with factories that call the registry themselves.
\* One thread; a factory runs inside the getInstance() call that invoked
\* it, so the calls in progress form a stack.
\* ---------------------------------------------------------------------

\* The factories passed for TestKey: () => new TestSingleton(); one that
\* calls getInstance(TestKey, () => new TestSingleton()) and then returns a
\* new object; one that returns what that inner call returned; one that
\* calls reset(TestKey) and then returns a new object.
ReentrantFactories == {"new", "nested", "nestedReturn", "resetting"}

\* The frame of a getInstance(TestKey, factory) call at its entry: the line
\* it is at, what the inner call of its factory returned, the value its
\* factory returned, and whether the call stored a value.
ReFrame(factory) ==
    [factory |-> factory, pc |-> "has", inner |-> Undefined, value |-> Undefined,
     stored |-> FALSE]

Top == stack[Len(stack)]
SetTop(f) == [stack EXCEPT ![Len(stack)] = f]
Pop == SubSeq(stack, 1, Len(stack) - 1)

\* The calls begun so far.
Begun == Len(stack) + Cardinality({i \in DOMAIN reLog : reLog[i].op = "getInstance"})

\* A caller outside every factory calls getInstance(TestKey, factory).
ReCall(factory) ==
    /\ stack = <<>>
    /\ Begun < MaxReentrantCalls
    /\ stack' = <<ReFrame(factory)>>
    /\ UNCHANGED <<instances, heap, reLog>>
    /\ UNCHANGED <<instance, isCreating, log, asyncVars, threadVars, last, invoked,
                   completed, returned, onlyNew, dropped, swept, lazyVars, builderVars,
                   directorVars, variantVars, factoryVars, bypassVars, genericVars>>

\* Line 68, the test: if (!SingletonRegistry.instances.has(key)).
ReTestHas ==
    /\ stack # <<>>
    /\ Top.pc = "has"
    /\ stack' = SetTop([Top EXCEPT !.pc = IF RegHas(instances, TestKey) THEN "get"
                                          ELSE "factory"])
    /\ UNCHANGED <<instances, heap, reLog>>
    /\ UNCHANGED <<instance, isCreating, log, asyncVars, threadVars, last, invoked,
                   completed, returned, onlyNew, dropped, swept, lazyVars, builderVars,
                   directorVars, variantVars, factoryVars, bypassVars, genericVars>>

\* Line 69, factory(): the factory calls getInstance(TestKey, ...) itself.
ReFactoryCalls ==
    /\ stack # <<>>
    /\ Top.pc = "factory"
    /\ Top.factory \in {"nested", "nestedReturn"}
    /\ stack' = Append(SetTop([Top EXCEPT !.pc = "waiting"]), ReFrame("new"))
    /\ UNCHANGED <<instances, heap, reLog>>
    /\ UNCHANGED <<instance, isCreating, log, asyncVars, threadVars, last, invoked,
                   completed, returned, onlyNew, dropped, swept, lazyVars, builderVars,
                   directorVars, variantVars, factoryVars, bypassVars, genericVars>>

\* Line 69, factory(): the factory calls reset(TestKey).
ReFactoryResets ==
    /\ stack # <<>>
    /\ Top.pc = "factory"
    /\ Top.factory = "resetting"
    /\ instances' = RegistryResetRun(Registry, TestKey).instances
    /\ stack' = SetTop([Top EXCEPT !.pc = "return"])
    /\ reLog' = Append(reLog, [op |-> "reset", ret |-> Undefined, stored |-> FALSE,
                                depth |-> Len(stack)])
    /\ UNCHANGED <<heap>>
    /\ UNCHANGED <<instance, isCreating, log, asyncVars, threadVars, last, invoked,
                   completed, returned, onlyNew, dropped, swept, lazyVars, builderVars,
                   directorVars, variantVars, factoryVars, bypassVars, genericVars>>

\* Line 69, factory(): the factory returns the object it constructs, or what
\* its inner call returned.
ReFactoryReturns ==
    /\ stack # <<>>
    /\ \/ Top.pc = "factory" /\ Top.factory = "new"
       \/ Top.pc = "return"
    /\ IF Top.factory = "nestedReturn"
       THEN /\ stack' = SetTop([Top EXCEPT !.pc = "set", !.value = Top.inner])
            /\ heap' = heap
       ELSE LET c == CallFactory([kind |-> "new", obj |-> Undefined], heap) IN
            /\ stack' = SetTop([Top EXCEPT !.pc = "set", !.value = c.value])
            /\ heap' = c.heap
    /\ UNCHANGED <<instances, reLog>>
    /\ UNCHANGED <<instance, isCreating, log, asyncVars, threadVars, last, invoked,
                   completed, returned, onlyNew, dropped, swept, lazyVars, builderVars,
                   directorVars, variantVars, factoryVars, bypassVars, genericVars>>

\* Line 69, the call of set: SingletonRegistry.instances.set(key, <value>).
ReSet ==
    /\ stack # <<>>
    /\ Top.pc = "set"
    /\ instances' = RegSet(instances, TestKey, Top.value)
    /\ stack' = SetTop([Top EXCEPT !.pc = "get", !.stored = TRUE])
    /\ UNCHANGED <<heap, reLog>>
    /\ UNCHANGED <<instance, isCreating, log, asyncVars, threadVars, last, invoked,
                   completed, returned, onlyNew, dropped, swept, lazyVars, builderVars,
                   directorVars, variantVars, factoryVars, bypassVars, genericVars>>

\* Line 71: return SingletonRegistry.instances.get(key).  The call ends; a
\* factory that waited for it goes on.
ReReturn ==
    /\ stack # <<>>
    /\ Top.pc = "get"
    /\ LET ret == RegGet(instances, TestKey) IN
       /\ reLog' = Append(reLog, [op |-> "getInstance", ret |-> ret,
                                   stored |-> Top.stored, depth |-> Len(stack)])
       /\ stack' = IF Len(stack) = 1 THEN <<>>
                   ELSE [Pop EXCEPT ![Len(stack) - 1].pc = "return",
                                    ![Len(stack) - 1].inner = ret]
    /\ UNCHANGED <<instances, heap>>
    /\ UNCHANGED <<instance, isCreating, log, asyncVars, threadVars, last, invoked,
                   completed, returned, onlyNew, dropped, swept, lazyVars, builderVars,
                   directorVars, variantVars, factoryVars, bypassVars, genericVars>>

\* A caller outside every factory calls reset(TestKey).
ReReset ==
    /\ stack = <<>>
    /\ reLog # <<>>
    /\ reLog[Len(reLog)].op # "reset"
    /\ instances' = RegistryResetRun(Registry, TestKey).instances
    /\ reLog' = Append(reLog, [op |-> "reset", ret |-> Undefined, stored |-> FALSE,
                                depth |-> 0])
    /\ UNCHANGED <<heap, stack>>
    /\ UNCHANGED <<instance, isCreating, log, asyncVars, threadVars, last, invoked,
                   completed, returned, onlyNew, dropped, swept, lazyVars, builderVars,
                   directorVars, variantVars, factoryVars, bypassVars, genericVars>>

NextReentrant ==
    \/ \E factory \in ReentrantFactories : ReCall(factory)
    \/ ReTestHas
    \/ ReFactoryCalls
    \/ ReFactoryResets
    \/ ReFactoryReturns
    \/ ReSet
    \/ ReReturn
    \/ ReReset

Init ==
    /\ instance = Undefined
    /\ isCreating = FALSE
    /\ heap = <<>>
    /\ log = <<>>
    /\ phase = "setup"
    /\ pending = {}
    /\ results = [c \in Callers |-> IdleFrame]
    /\ frames = [t \in Threads |-> IdleFrame]
    /\ instances = <<>>
    /\ last = [op |-> "none", key |-> "", factory |-> NoFactory, ret |-> Undefined,
               threw |-> FALSE, error |-> "", invoked |-> 0, made |-> Undefined,
               replaces |-> Undefined, swept |-> FALSE]
    /\ invoked = [k \in Keys |-> 0]
    /\ completed = [k \in Keys |-> 0]
    /\ returned = [k \in Keys |-> {}]
    /\ onlyNew = [k \in Keys |-> TRUE]
    /\ dropped = [k \in Keys |-> Undefined]
    /\ swept = {}
    /\ lazyInstance = Null
    /\ clock = 0
    /\ lazyLog = <<>>
    /\ builder = NewBuilder
    /\ passed = [f \in Fields |-> Undefined]
    /\ built = 0
    /\ lastCall = BuilderCall("none", Undefined, Undefined, Undefined, FALSE, "", NoComputer)
    /\ dirBuilder = NewBuilder
    /\ computers = <<>>
    /\ dirLog = <<>>
    /\ variant = NoVariant
    /\ variantCall = VariantCall("none", Undefined, Undefined, FALSE, "", NoComputer)
    /\ creators = <<>>
    /\ products = <<>>
    /\ registered = [order |-> <<>>, latest |-> <<>>]
    /\ factoryCall = FactoryCall("none", Undefined, Undefined, NoResult, <<>>)
    /\ direct = <<>>
    /\ generic = NewGeneric
    /\ genericCall = GenericCall("none", Undefined, NoBuild, NewGeneric, 0)
    /\ stack = <<>>
    /\ reLog = <<>>

Next ==
    \/ GetInstance
    \/ Reset
    \/ DirectNew

Spec == Init /\ [][Next]_vars

SpecAsync == Init /\ [][NextAsync]_vars

SpecThreads == Init /\ [][NextThreads]_vars

SpecRegistry == Init /\ [][NextRegistry]_vars

SpecLazy == Init /\ [][NextLazy]_vars

SpecBuilder == Init /\ [][NextBuilder]_vars

SpecDirector == Init /\ [][NextDirector]_vars

SpecFactory == Init /\ [][NextFactory]_vars

SpecBypass == Init /\ [][NextBypass]_vars

SpecVariants == Init /\ [][NextVariants]_vars

SpecGeneric == Init /\ [][NextGeneric]_vars

SpecReentrant == Init /\ [][NextReentrant]_vars

(* ------------------- the sequential caller's history ------------------ *)

IsGet(i) == log[i].op = "getInstance"
IsReset(i) == log[i].op = "reset"
IsNew(i) == log[i].op = "new"

\* No Singleton.reset() was called strictly between calls i and j.
NoResetBetween(i, j) == \A k \in (i + 1)..(j - 1) : ~IsReset(k)

\* Call i is the first getInstance() since start-up or since the last reset.
FirstGet(i) ==
    /\ IsGet(i)
    /\ \A k \in 1..(i - 1) : IsGet(k) => ~NoResetBetween(k, i)

\* C1: Singleton idempotent access.  Every getInstance() returns an object;
\* any two getInstance() calls with no reset between them return the
\* identical instance, and in a reset-free run of calls the constructor runs
\* exactly once, in the first call, and not at all in the later ones.
C1_IdempotentAccess ==
    \A i \in 1..Len(log) :
        IsGet(i) =>
            /\ ~log[i].threw
            /\ Truthy(log[i].ret)
            /\ log[i].ctorRuns = (IF FirstGet(i) THEN 1 ELSE 0)
            /\ \A j \in (i + 1)..Len(log) :
                   (IsGet(j) /\ NoResetBetween(i, j)) => log[j].ret = log[i].ret

\* Three getInstance() calls in a row with no reset between them, the first
\* of which constructed.
C1_Witness ==
    \E i, j, k \in 1..Len(log) :
        /\ i < j /\ j < k
        /\ FirstGet(i) /\ IsGet(j) /\ IsGet(k)
        /\ NoResetBetween(i, k)
        /\ log[i].ctorRuns = 1
        /\ log[k].ret = log[i].ret

\* C2: Singleton post-reset distinctness.  reset() leaves the slot unset
\* (Uninitialized); the first getInstance() after it constructs; and a
\* getInstance() after a reset returns an instance identical to none that a
\* getInstance() returned before that reset.
C2_PostResetDistinct ==
    \A j \in 1..Len(log) :
        /\ IsReset(j) => (log[j].after = Null /\ ~Truthy(log[j].after))
        /\ (IsGet(j) /\ j > 1 /\ \E r \in 1..(j - 1) : IsReset(r) /\ NoResetBetween(r, j)
                                   /\ \A k \in (r + 1)..(j - 1) : ~IsGet(k))
              => log[j].ctorRuns = 1
        /\ \A i \in 1..(j - 1) :
              (IsGet(i) /\ IsGet(j) /\ ~NoResetBetween(i, j)) => log[j].ret # log[i].ret

\* getInstance, reset, getInstance, reset, getInstance: three instances,
\* pairwise distinct.
C2_Witness ==
    \E i, r, j, q, k \in 1..Len(log) :
        /\ i < r /\ r < j /\ j < q /\ q < k
        /\ IsGet(i) /\ IsReset(r) /\ IsGet(j) /\ IsReset(q) /\ IsGet(k)
        /\ log[i].ret # log[j].ret
        /\ log[j].ret # log[k].ret
        /\ log[i].ret # log[k].ret

\* C3: Construction guard.  Every direct invocation of the constructor made
\* outside getInstance() fails with the constructor's error and builds
\* nothing, whatever getInstance() and reset() calls came before it.
C3_ConstructionGuard ==
    \A i \in 1..Len(log) :
        IsNew(i) =>
            /\ log[i].threw
            /\ log[i].error = ForbiddenMsg
            /\ log[i].ctorRuns = 0

\* The constructor was invoked directly before the first access, after
\* initialization and after a reset, and failed each time.
C3_Witness ==
    \E a, g, b, r, c \in 1..Len(log) :
        /\ a < g /\ g < b /\ b < r /\ r < c
        /\ IsNew(a) /\ IsGet(g) /\ IsNew(b) /\ IsReset(r) /\ IsNew(c)
        /\ \A k \in 1..a : ~IsGet(k)
        /\ Truthy(log[b].after)
        /\ ~Truthy(log[c].after)
        /\ log[a].threw /\ log[b].threw /\ log[c].threw

(* ------------------------- concurrent callbacks ----------------------- *)

\* Callback c has run.
Ran(c) == Ended(results[c])

\* C4: concurrent access by callbacks.  From a reset Singleton, with the
\* callbacks run in any order and each getInstance() call running to
\* completion, every callback that has run returned an object, all of them
\* the identical instance, and the constructor ran exactly once (in one
\* callback, zero times in every other); when Promise.all settles, every
\* caller has its result.
C4_ConcurrentCallbacks ==
    /\ \A c \in Callers :
           Ran(c) =>
               /\ results[c].pc = "done"
               /\ Truthy(results[c].ret)
               /\ results[c].ctorRuns \in {0, 1}
               /\ \A d \in Callers : Ran(d) => results[d].ret = results[c].ret
    /\ (\E c \in Callers : Ran(c)) =>
           Cardinality({c \in Callers : Ran(c) /\ results[c].ctorRuns = 1}) = 1
    /\ phase = "settled" => \A c \in Callers : Ran(c)

\* Promise.all has settled with every caller's result, after a setup in
\* which an instance existed before the reset.
C4_Witness ==
    /\ phase = "settled"
    /\ \A c \in Callers : Ran(c)
    /\ \E i \in 1..Len(log) :
           /\ IsGet(i)
           /\ \E r \in (i + 1)..Len(log) : IsReset(r)
           /\ \A c \in Callers : results[c].ret # log[i].ret

(* --------------------------- parallel threads ------------------------- *)

\* Thread t has run the constructor and holds the object it built.
Built(t) == Truthy(frames[t].tmp)

IsGetStep(k) == last'.op = "getInstance" /\ last'.key = k

\* The step is a SingletonRegistry.reset(k) call.
IsResetStep(k) == last'.op = "reset" /\ last'.key = k

\* What getInstance(k, factory) does when k has no entry and the factory
\* returns: one invocation, its result stored under k and returned.
StoresWhenAbsent(k) ==
    (IsGetStep(k) /\ ~RegHas(instances, k)) =>
        /\ last'.invoked = 1
        /\ ~last'.threw =>
              /\ RegHas(instances', k)
              /\ instances'[k] = last'.made
              /\ last'.ret = last'.made

\* What getInstance(k, factory) does when k has an entry: the stored value
\* is returned, the factory is not invoked, nothing changes.
ReturnsStoredWhenPresent(k) ==
    (IsGetStep(k) /\ RegHas(instances, k)) =>
        /\ last'.invoked = 0
        /\ ~last'.threw
        /\ last'.ret = instances[k]
        /\ instances' = instances
        /\ heap' = heap

\* C6 as stated: getInstance(key, factory) invokes the factory exactly once
\* when key has no entry, stores and returns its result, and returns the
\* stored value without invoking the factory when key has an entry; hence
\* between two resets of key at most one factory invocation is made for it.
C6_AtMostOneInvocation ==
    [][\A k \in Keys :
          /\ StoresWhenAbsent(k)
          /\ ReturnsStoredWhenPresent(k)
          /\ invoked'[k] <= 1]_vars

\* C6 as amended: the same, but between two resets of key at most one
\* factory invocation for it returns a value (an invocation that throws
\* stores nothing, and the next call invokes its factory again).
C6_AtMostOneCompletedInvocation ==
    [][\A k \in Keys :
          /\ StoresWhenAbsent(k)
          /\ ReturnsStoredWhenPresent(k)
          /\ completed'[k] <= 1]_vars

\* A call for a key that has an entry was passed a throwing factory, which
\* was not invoked; before the entry was made a factory for the key threw.
C6_Witness ==
    /\ last.op = "getInstance"
    /\ last.factory.kind = "throws"
    /\ ~last.threw
    /\ last.invoked = 0
    /\ Truthy(last.ret)
    /\ invoked[last.key] = 2
    /\ completed[last.key] = 1

\* C7: registry identity per key.  All getInstance(key, ...) calls that
\* return between two resets of key return the identical value, and the
\* field value read through the value a call returns is the one readable
\* through the value returned before it (a setValue made through the
\* earlier reference is visible through the later one).
C7_IdentityPerKey ==
    [][\A k \in Keys :
          /\ Cardinality(returned'[k]) <= 1
          /\ (IsGetStep(k) /\ returned[k] # {}) =>
                /\ ~last'.threw
                /\ last'.ret \in returned[k]
                /\ ValueOf(heap', last'.ret) \in {ValueOf(heap, h) : h \in returned[k]}]_vars

\* TestSingleton.getInstance() returned the stored object once more, and
\* 'modified', set through the reference returned earlier, is read through
\* it.
C7_Witness ==
    /\ last.op = "getInstance"
    /\ last.key = TestKey
    /\ last.invoked = 0
    /\ Truthy(last.ret)
    /\ ValueOf(heap, last.ret) = "modified"

\* C8 as stated: for two different keys, getInstance never returns the same
\* stored value under both, whatever the factories.
C8_KeyIsolation ==
    \A a, b \in Keys :
        a # b =>
            /\ returned[a] \cap returned[b] = {}
            /\ (RegHas(instances, a) /\ RegHas(instances, b)) => instances[a] # instances[b]

\* C8 as amended: for two different keys for which every factory passed
\* since the key's last reset constructs a new object on each invocation,
\* getInstance never returns the same value under both, and the two stored
\* values differ.
C8_KeyIsolationOfNewObjects ==
    \A a, b \in Keys :
        (a # b /\ onlyNew[a] /\ onlyNew[b]) =>
            /\ returned[a] \cap returned[b] = {}
            /\ (RegHas(instances, a) /\ RegHas(instances, b)) => instances[a] # instances[b]

\* Both keys hold a value made by a constructing factory; the two objects
\* are structurally equal and not identical.
C8_Witness ==
    /\ RegHas(instances, TestKey) /\ RegHas(instances, AnotherKey)
    /\ onlyNew[TestKey] /\ onlyNew[AnotherKey]
    /\ returned[TestKey] = {instances[TestKey]}
    /\ returned[AnotherKey] = {instances[AnotherKey]}
    /\ Truthy(instances[TestKey]) /\ Truthy(instances[AnotherKey])
    /\ heap[instances[TestKey].id] = heap[instances[AnotherKey].id]
    /\ instances[TestKey] # instances[AnotherKey]

\* Since the last reset of k every factory invoked for k threw.
OnlyFailures(k) == invoked[k] > 0 /\ completed[k] = 0

\* C9: registry factory failure.  getInstance(key, factory) throws only when
\* key has no entry and the invoked factory throws; the factory's error
\* reaches the caller, the Map is left as it was (no entry for key, every
\* other entry unchanged); as long as only failures were made for key it has
\* no entry, and the next getInstance(key, g) invokes g.
C9_FactoryFailure ==
    [][\A k \in Keys :
          /\ (IsGetStep(k) /\ last'.threw) =>
                /\ ~RegHas(instances, k)
                /\ last'.factory.kind = "throws"
                /\ last'.invoked = 1
                /\ last'.error = FactoryError
                /\ instances' = instances
                /\ ~RegistryHasInstanceRun([instances |-> instances', heap |-> heap'], k)
          /\ OnlyFailures(k)' => ~RegHas(instances', k)
          /\ (IsGetStep(k) /\ OnlyFailures(k)) =>
                /\ last'.invoked = 1
                /\ last'.factory.kind # "throws" => (~last'.threw /\ RegHas(instances', k))]_vars

\* After a factory failed for a key, with the other key holding an entry,
\* a later getInstance for the key invoked its factory and stored a value.
C9_Witness ==
    /\ last.op = "getInstance"
    /\ ~last.threw
    /\ last.invoked = 1
    /\ invoked[last.key] = 2
    /\ completed[last.key] = 1
    /\ \E j \in Keys \ {last.key} : RegHas(instances, j)

\* reset(k) removes the entry of k if there is one, throws nothing and
\* leaves every other entry as it was.
ResetRemovesOnlyKey(k) ==
    IsResetStep(k) =>
        /\ ~last'.threw
        /\ DOMAIN instances' = (DOMAIN instances) \ {k}
        /\ \A j \in DOMAIN instances' : instances'[j] = instances[j]
        /\ heap' = heap

\* The step is the first getInstance(k, ...) since the last reset of k.
IsNextGetStep(k) == IsGetStep(k) /\ invoked[k] = 0

\* C10 as stated: reset(key) removes the entry of key when present, is a
\* no-op without error when absent, leaves the other entries unchanged, and
\* the next getInstance(key, f) invokes f and returns a value not identical
\* to the one stored before the reset.
C10_ResetThenDistinct ==
    [][\A k \in Keys :
          /\ ResetRemovesOnlyKey(k)
          /\ IsNextGetStep(k) =>
                /\ last'.invoked = 1
                /\ (~last'.threw /\ Truthy(dropped[k])) => last'.ret # dropped[k]]_vars

\* C10 as amended: the same, but the next getInstance(key, f) returns what f
\* returns, which is not identical to the value stored before the reset
\* when f constructs a new object.
C10_ResetThenNewObjectDistinct ==
    [][\A k \in Keys :
          /\ ResetRemovesOnlyKey(k)
          /\ IsNextGetStep(k) =>
                /\ last'.invoked = 1
                /\ ~last'.threw => last'.ret = last'.made
                /\ (~last'.threw /\ last'.factory.kind = "new" /\ Truthy(dropped[k]))
                      => last'.ret # dropped[k]]_vars

\* A key was reset while the other key held an entry, and the next
\* getInstance for it constructed a new object; the other entry is still
\* there.
C10_Witness ==
    /\ last.op = "getInstance"
    /\ last.factory.kind = "new"
    /\ last.invoked = 1
    /\ Truthy(last.ret)
    /\ Truthy(last.replaces)
    /\ last.ret # last.replaces
    /\ heap[last.ret.id] = TestFields
    /\ \E j \in Keys \ {last.key} : RegHas(instances, j)

\* The step is a SingletonRegistry.resetAll() call.
IsResetAllStep == last'.op = "resetAll"

\* C11: resetAll() clears every entry.  After it hasInstance(k) is false for
\* every key k, whatever calls preceded it, and stays false until the next
\* getInstance for k, which invokes its factory again.
C11_ResetAllClearsEveryEntry ==
    [][/\ IsResetAllStep =>
             /\ ~last'.threw
             /\ \A k \in Keys : ~RegistryHasInstanceRun(Registry', k)
       /\ \A k \in swept' : ~RegistryHasInstanceRun(Registry', k)
       /\ \A k \in Keys : (IsGetStep(k) /\ k \in swept) => last'.invoked = 1]_vars

\* Both keys held an entry when resetAll() was called; the first
\* getInstance after it, for one of the keys, invoked its factory again,
\* and the other key still has no entry.
C11_Witness ==
    /\ last.op = "getInstance"
    /\ last.swept
    /\ last.invoked = 1
    /\ Truthy(last.ret)
    /\ Truthy(last.replaces)
    /\ \E j \in Keys \ {last.key} :
          /\ j \in swept
          /\ Truthy(dropped[j])
          /\ ~RegHas(instances, j)

\* The step is a SingletonRegistry.hasInstance(k) call.
IsHasStep(k) == last'.op = "hasInstance" /\ last'.key = k

\* C12: hasInstance(key) returns true exactly when an entry for key exists,
\* that is when a getInstance(key, ...) has returned since the start and
\* since the last reset(key) or resetAll(); the call changes nothing: it
\* creates no entry, invokes no factory, constructs no object.
C12_HasInstanceObservesOnly ==
    [][\A k \in Keys :
          IsHasStep(k) =>
              /\ ~last'.threw
              /\ last'.ret = RegHas(instances, k)
              /\ last'.ret = (returned[k] # {})
              /\ last'.invoked = 0
              /\ instances' = instances
              /\ heap' = heap
              /\ invoked' = invoked]_vars

\* hasInstance(key) returned false for a key whose entry a reset removed,
\* while the other key has an entry.
C12_Witness ==
    /\ last.op = "hasInstance"
    /\ last.ret = FALSE
    /\ Truthy(dropped[last.key])
    /\ \E j \in Keys \ {last.key} : RegHas(instances, j)

(* ------------------------------ LazySingleton -------------------------- *)

IsRead(i) == lazyLog[i].op = "instance"
IsLazyReset(i) == lazyLog[i].op = "reset"

\* No LazySingleton.reset() was called between calls i and j.
NoLazyResetBetween(i, j) == \A k \in (i + 1)..(j - 1) : ~IsLazyReset(k)

\* Call i is the first read of LazySingleton.instance since start-up or
\* since the last reset().
FirstRead(i) ==
    /\ IsRead(i)
    /\ \A j \in 1..(i - 1) : IsRead(j) => ~NoLazyResetBetween(j, i)

\* C13: a read of LazySingleton.instance runs the constructor exactly when
\* it is the first read since start-up or since the last reset(), and never
\* otherwise; every read returns an object; two reads with no reset between
\* them return the identical object, with the data it was constructed with;
\* two reads with a reset between them return objects that are not
\* identical.
C13_LazyConstruction ==
    \A i \in 1..Len(lazyLog) :
        IsRead(i) =>
            /\ Truthy(lazyLog[i].ret)
            /\ lazyLog[i].constructed = IF FirstRead(i) THEN 1 ELSE 0
            /\ \A j \in 1..(i - 1) :
                  IsRead(j) =>
                      IF NoLazyResetBetween(j, i)
                      THEN /\ lazyLog[i].ret = lazyLog[j].ret
                           /\ lazyLog[i].data = lazyLog[j].data
                      ELSE lazyLog[i].ret # lazyLog[j].ret

\* Two reads returned one object, a reset followed, and the two reads after
\* it returned one other object, constructed later.
C13_Witness ==
    /\ Len(lazyLog) = 5
    /\ IsRead(1) /\ IsRead(2) /\ IsLazyReset(3) /\ IsRead(4) /\ IsRead(5)
    /\ lazyLog[1].ret = lazyLog[2].ret
    /\ lazyLog[4].ret = lazyLog[5].ret
    /\ lazyLog[1].ret # lazyLog[4].ret
    /\ lazyLog[1].data # lazyLog[4].data
    /\ lazyLog[5].constructed = 0

(* ------------------------- ConcreteComputerBuilder --------------------- *)

\* The step is a call of build().
IsBuildStep == lastCall'.op = "build"

\* A setter of field f was called since the builder was constructed or
\* last reset.
WasSet(f) == passed[f] # Undefined

\* The Computer a build() step returns has, in every field whose setter was
\* called, the value last passed to it.
BuildsWhatWasPassed ==
    /\ ~lastCall'.threw
    /\ Truthy(lastCall'.ret)
    /\ \A f \in Fields : WasSet(f) => lastCall'.made[f] = passed[f]

\* C14 as stated: when setCPU, setRAM and setStorage have each been called,
\* with any string, build() succeeds and returns a Computer whose cpu, ram,
\* storage, gpu, powerSupply and motherboard equal the values last passed to
\* the corresponding setters.
C14_BuildSucceedsWhenRequiredSet ==
    [][(IsBuildStep /\ \A f \in Required : WasSet(f)) => BuildsWhatWasPassed]_vars

\* build() threw although each of the three required setters had been
\* called: one of them with the empty string.
C14_Witness ==
    /\ lastCall.op = "build"
    /\ lastCall.threw
    /\ \A f \in Required : WasSet(f)
    /\ \E f \in Required : passed[f] = Str("") /\ builder[f] = Str("")

\* The required fields the text of an error message names.
FieldsNamed(msg) == IF msg = RequiredMsg THEN {"cpu", "ram", "storage"} ELSE {}

\* The first required field, in declaration order, that no setter was
\* called for.
FirstUnset ==
    RequiredFields[CHOOSE i \in DOMAIN RequiredFields :
                      /\ ~WasSet(RequiredFields[i])
                      /\ \A j \in 1..(i - 1) : WasSet(RequiredFields[j])]

\* C15 as stated: when a required field is unset, build() fails with an
\* error that names the missing field: the first unset one in the order
\* cpu, ram, storage, and no other.
C15_ErrorNamesFirstMissing ==
    [][(IsBuildStep /\ \E f \in Required : ~WasSet(f)) =>
           /\ lastCall'.threw
           /\ FieldsNamed(lastCall'.error) = {FirstUnset}]_vars

\* build() threw with cpu and storage set and ram unset; its error is the
\* one message that lists all three required fields.
C15_Witness ==
    /\ lastCall.op = "build"
    /\ lastCall.threw
    /\ builder.cpu = Str("A") /\ builder.storage = Str("A")
    /\ ~WasSet("ram")
    /\ lastCall.error = RequiredMsg
    /\ FieldsNamed(lastCall.error) # {"ram"}

\* C16: a build() that succeeds leaves every field of the builder as it
\* was; a build() that directly follows a successful build() succeeds and
\* returns a Computer that is not identical to the first and has equal
\* fields.
C16_BuildLeavesBuilder ==
    [][/\ (IsBuildStep /\ ~lastCall'.threw) =>
             /\ builder' = builder
             /\ passed' = passed
       /\ (IsBuildStep /\ lastCall.op = "build" /\ ~lastCall.threw) =>
             /\ ~lastCall'.threw
             /\ Truthy(lastCall'.ret)
             /\ lastCall'.ret # lastCall.ret
             /\ lastCall'.made = lastCall.made]_vars

\* Two build() calls in a row succeeded, on a builder with an optional
\* field set and another unset; the builder holds what it held.
C16_Witness ==
    /\ lastCall.op = "build"
    /\ ~lastCall.threw
    /\ Truthy(lastCall.prev)
    /\ lastCall.ret # lastCall.prev
    /\ lastCall.made.gpu = Str("A")
    /\ builder.gpu = Str("A")
    /\ builder.cpu = Str("A")
    /\ ~WasSet("motherboard")

\* A build() that fails leaves every field of the builder as it was.
FailedBuildChangesNothing ==
    (IsBuildStep /\ lastCall'.threw) =>
        /\ builder' = builder
        /\ passed' = passed
        /\ built' = built

\* The step is a build() made after a build() failed and then a setter
\* was called for each required field that was missing, and nothing else.
IsRetryStep == IsBuildStep /\ lastCall'.retry

\* C17 as stated: a build() that fails leaves every field as it was, and
\* after the caller has set the required fields that were missing, build()
\* succeeds and the Computer has the values set before the failure and
\* after it.
C17_FailedBuildRecoverable ==
    [][/\ FailedBuildChangesNothing
       /\ IsRetryStep => BuildsWhatWasPassed]_vars

\* build() failed for the missing cpu, setCPU('') was called, and build()
\* failed again; ram, storage and gpu hold what was set before the first
\* failure.
C17_Witness ==
    /\ lastCall.op = "build"
    /\ lastCall.retry
    /\ lastCall.threw
    /\ lastCall.missing = {"cpu"}
    /\ passed.cpu = Str("")
    /\ builder.ram = Str("A") /\ builder.storage = Str("A") /\ builder.gpu = Str("A")

\* The step is a call of reset() on the builder.
IsBuilderResetStep == lastCall'.op = "reset"

\* C18 as stated: reset(), in any state, returns the same builder and
\* leaves every field, required and optional, unset as in a newly
\* constructed builder; a build() made when no required field was set since
\* the last reset fails.
C18_ResetClearsEveryField ==
    [][/\ IsBuilderResetStep =>
             /\ ~lastCall'.threw
             /\ lastCall'.ret = This
             /\ \A f \in Fields : builder'[f] = NewBuilder[f]
       /\ (IsBuildStep /\ \A f \in Required : ~WasSet(f)) => lastCall'.threw]_vars

\* After reset() the optional fields hold the empty string, not undefined.
C18_Witness ==
    /\ lastCall.op = "reset"
    /\ lastCall.ret = This
    /\ \A f \in Required : builder[f] = Str("")
    /\ \A f \in Optional : builder[f] = Str("") /\ builder[f] # NewBuilder[f]

\* C19 as stated: an optional field whose setter was not called since the
\* builder was constructed or last reset is absent (undefined) in the
\* builder and in the Computer build() returns, and the state after reset()
\* is the state of a newly constructed builder.
C19_OptionalDefaultAbsent ==
    /\ \A f \in Optional : ~WasSet(f) => builder[f] = Undefined
    /\ (lastCall.op = "build" /\ ~lastCall.threw) =>
          \A f \in Optional : ~WasSet(f) => lastCall.made[f] = Undefined
    /\ lastCall.op = "reset" => builder = NewBuilder

\* A Computer was built after a reset() and no setGPU since: its gpu is the
\* empty string.
C19_Witness ==
    /\ lastCall.op = "build"
    /\ ~lastCall.threw
    /\ ~WasSet("gpu")
    /\ lastCall.made.gpu = Str("")
    /\ lastCall.made.features = <<Str("A"), Str("A"), Str("A")>>

\* The step is a call of the setter called name.
IsSetStep(name) == lastCall'.op = name

\* C20: each setter returns the builder it was called on, throws nothing,
\* assigns the value it is given, whatever it is and whatever the field
\* held, to its own field, and leaves the other five fields as they were;
\* it constructs nothing.
C20_SettersAssignOwnField ==
    [][\A name \in SetterNames :
          IsSetStep(name) =>
              /\ ~lastCall'.threw
              /\ lastCall'.ret = This
              /\ builder'[FieldOf[name]] = lastCall'.arg
              /\ passed'[FieldOf[name]] = lastCall'.arg
              /\ \A g \in Fields \ {FieldOf[name]} : builder'[g] = builder[g]
              /\ built' = built]_vars

\* setStorage('') was called on a builder whose storage a setter had set to
\* 'A': storage holds the last value, and cpu and gpu hold what they held.
C20_Witness ==
    /\ lastCall.op = "setStorage"
    /\ lastCall.prev = Str("A")
    /\ lastCall.arg = Str("")
    /\ builder.storage = Str("")
    /\ builder.cpu = Str("A")
    /\ builder.gpu = Str("A")
    /\ builder.motherboard = Undefined

\* ---------------------------------------------------------------------
\* C21  Each recipe of the ComputerDirector, whatever state its builder was
\* in, returns a product that depends on the recipe alone: two calls of one
\* recipe return two distinct Computer objects with the same field values,
\* and the product of buildGamingComputer() has the cpu "Intel i9-11900K",
\* the ram "32GB DDR4", the storage "1TB NVMe SSD" and the gpu "RTX 3080".
\* ---------------------------------------------------------------------
RecipeCalls == {i \in DOMAIN dirLog : dirLog[i].op \in RecipeNames}

C21_DirectorDeterminism ==
    /\ \A i \in RecipeCalls :
          /\ ~dirLog[i].threw
          /\ dirLog[i].ret.tag = "object"
          /\ dirLog[i].op = "buildGamingComputer" =>
                /\ dirLog[i].made.cpu = Str("Intel i9-11900K")
                /\ dirLog[i].made.ram = Str("32GB DDR4")
                /\ dirLog[i].made.storage = Str("1TB NVMe SSD")
                /\ dirLog[i].made.gpu = Str("RTX 3080")
    /\ \A i, j \in RecipeCalls :
          (i # j /\ dirLog[i].op = dirLog[j].op) =>
              /\ dirLog[i].ret # dirLog[j].ret
              /\ dirLog[i].made = dirLog[j].made

\* One recipe was called twice, the second time after a setter call on the
\* builder that left a foreign value in it.
C21_Witness ==
    \E i, j \in RecipeCalls :
        /\ i + 1 < j
        /\ dirLog[i].op = "buildGamingComputer"
        /\ dirLog[j].op = "buildGamingComputer"
        /\ dirLog[j - 1].op = "setGPU"
        /\ dirLog[j - 1].arg = Str("A")

\* ---------------------------------------------------------------------
\* C22  A Computer that build() returned is a snapshot: no later setter,
\* reset() or build() call on the builder changes it; its fields and its
\* features list keep the values they had when build() returned.
\* ---------------------------------------------------------------------
BuiltCalls == {i \in DOMAIN dirLog : dirLog[i].ret.tag = "object" /\ dirLog[i].ret # This}

C22_ProductIsSnapshot ==
    \A i \in BuiltCalls :
        /\ dirLog[i].ret.id \in DOMAIN computers
        /\ computers[dirLog[i].ret.id] = dirLog[i].made

\* A product was built, a setter then put another value in the builder and
\* a second build() succeeded.
C22_Witness ==
    /\ Len(dirLog) = 3
    /\ 1 \in BuiltCalls
    /\ dirLog[2].op = "setCPU"
    /\ dirLog[2].arg = Str("A")
    /\ dirLog[3].op = "build"
    /\ 3 \in BuiltCalls
    /\ dirLog[3].made # dirLog[1].made

\* ---------------------------------------------------------------------
\* C28  No value leaks from one Director recipe into the product of a
\* later one, in any order of the calls: the office product carries no gpu
\* and no power supply, the server product carries no gpu, and the
\* features of each product are exactly the values its own recipe sets.
\* ---------------------------------------------------------------------
OwnFeatures(recipe) ==
    CASE recipe = "buildGamingComputer" ->
             <<Str("Intel i9-11900K"), Str("32GB DDR4"), Str("1TB NVMe SSD"),
               Str("RTX 3080"), Str("850W Gold"), Str("ASUS ROG Strix Z590-E")>>
      [] recipe = "buildOfficeComputer" ->
             <<Str("Intel i5-11400"), Str("16GB DDR4"), Str("512GB SSD"),
               Str("MSI B560M Pro")>>
      [] recipe = "buildServerComputer" ->
             <<Str("AMD EPYC 7742"), Str("128GB DDR4 ECC"), Str("2TB NVMe SSD"),
               Str("1200W Platinum"), Str("Supermicro H12SSL-i")>>

Values(seq) == {seq[k] : k \in DOMAIN seq}

\* The product carries a value in the field f.
Carries(made, f) == ToBoolean(made[f])

C28_NoLeakBetweenRecipes ==
    \A i \in RecipeCalls :
        LET made == dirLog[i].made
            own == OwnFeatures(dirLog[i].op) IN
        /\ made.features = own
        /\ \A f \in Fields : Carries(made, f) => made[f] \in Values(own)
        /\ dirLog[i].op = "buildOfficeComputer" =>
               ~Carries(made, "gpu") /\ ~Carries(made, "powerSupply")
        /\ dirLog[i].op = "buildServerComputer" => ~Carries(made, "gpu")
        /\ computers[dirLog[i].ret.id].features = own

\* The gaming recipe ran first, the office recipe and the server recipe
\* after it.
C28_Witness ==
    /\ Len(dirLog) = 3
    /\ dirLog[1].op = "buildGamingComputer"
    /\ dirLog[2].op = "buildOfficeComputer"
    /\ dirLog[3].op = "buildServerComputer"
    /\ dirLog[2].made.gpu = Str("")

\* ---------------------------------------------------------------------
\* C23  ProductFactory.create(type) returns a new 'Product A' (category
\* 'Electronics', price 100) for 'A', a new 'Product B' (category
\* 'Clothing', price 200) for 'B', and throws 'Unknown product type: <type>'
\* for every other type; it keeps no state, so the outcome depends on the
\* type alone.
\* ---------------------------------------------------------------------
IsNewObject(call) ==
    /\ call.ret.tag = "object"
    /\ call.ret.id > call.existing
    /\ call.ret.id \in DOMAIN products
    /\ Len(products) = call.existing + 1

C23_ProductFactoryCreate ==
    factoryCall.op = "ProductFactory.create" =>
        /\ creators = factoryCall.before
        /\ factoryCall.type = Str("A") =>
              /\ ~factoryCall.threw
              /\ IsNewObject(factoryCall)
              /\ products[factoryCall.ret.id].name = "Product A"
              /\ products[factoryCall.ret.id].category = "Electronics"
              /\ products[factoryCall.ret.id].price = 100
        /\ factoryCall.type = Str("B") =>
              /\ ~factoryCall.threw
              /\ IsNewObject(factoryCall)
              /\ products[factoryCall.ret.id].name = "Product B"
              /\ products[factoryCall.ret.id].category = "Clothing"
              /\ products[factoryCall.ret.id].price = 200
        /\ factoryCall.type \notin {Str("A"), Str("B")} =>
              /\ factoryCall.threw
              /\ factoryCall.error.text = "Unknown product type: "
              /\ factoryCall.error.type = factoryCall.type.val
              /\ Len(products) = factoryCall.existing

\* create('A') returned a second 'Product A' after it had returned a first.
C23_Witness ==
    /\ factoryCall.op = "ProductFactory.create"
    /\ factoryCall.type = Str("A")
    /\ factoryCall.existing = 1
    /\ products[1].name = "Product A"
    /\ factoryCall.ret = Obj(2)

\* ---------------------------------------------------------------------
\* C24  ParameterizedFactory, after any sequence of register() calls:
\* create(t) throws 'No creator registered for type: <t>' and leaves the
\* registrations as they were when t was never registered; otherwise it
\* calls the creator registered last for t exactly once and returns its
\* result.  getAvailableTypes() lists each registered type once, in the
\* order of the first registrations.
\* ---------------------------------------------------------------------
WasRegistered(type) == \E i \in DOMAIN registered.order : registered.order[i] = type

C24_ParameterizedFactory ==
    /\ factoryCall.op = "create" =>
          /\ creators = factoryCall.before
          /\ ~WasRegistered(factoryCall.type) =>
                /\ factoryCall.threw
                /\ factoryCall.error.text = "No creator registered for type: "
                /\ factoryCall.error.type = factoryCall.type.val
                /\ factoryCall.calls = <<>>
                /\ Len(products) = factoryCall.existing
          /\ WasRegistered(factoryCall.type) =>
                /\ ~factoryCall.threw
                /\ factoryCall.calls = <<registered.latest[factoryCall.type]>>
                /\ IsNewObject(factoryCall)
                /\ products[factoryCall.ret.id].name =
                       registered.latest[factoryCall.type].creator
    /\ factoryCall.op = "getAvailableTypes" =>
          /\ factoryCall.ret = registered.order
          /\ creators = factoryCall.before

\* A type was registered twice with two creators and a second type after
\* it; create() of the first type then called the later creator.
C24_Witness ==
    /\ factoryCall.op = "create"
    /\ factoryCall.type = Str("type1")
    /\ registered.order = <<Str("type1"), Str("type2")>>
    /\ creators[1].value = Fn("g")
    /\ factoryCall.calls = <<Fn("g")>>
    /\ factoryCall.existing = 1
    /\ products[1].name = "f"

\* ---------------------------------------------------------------------
\* C25  Singleton.isCreating is true only while the construction inside
\* getInstance() runs: it is false in every state between operations, after
\* any sequence of getInstance(), reset() and failed direct constructor
\* calls; reset() never changes it, and a failed direct construction changes
\* neither it nor the stored instance.
\* ---------------------------------------------------------------------

\* The lines of one getInstance() call, started in the state s with the
\* frame f, that are entered while Singleton.isCreating is true.
RECURSIVE CreatingLines(_, _)
CreatingLines(s, f) ==
    IF Ended(f) THEN {}
    ELSE LET n == GetInstanceStep(s, f) IN
         (IF s.isCreating THEN {f.pc} ELSE {}) \cup CreatingLines(n.s, n.f)

\* Singleton.instance when the i-th operation began.
InstanceBefore(i) == IF i = 1 THEN Undefined ELSE log[i - 1].after

IsFailedNew(i) == log[i].op = "new" /\ log[i].threw

C25_GuardFlagInvariant ==
    /\ ~isCreating
    /\ CreatingLines(Statics, EntryFrame) \subseteq {"L37new", "L37store", "L38"}
    /\ \A i \in DOMAIN log :
          /\ ~log[i].creating
          /\ IsFailedNew(i) => log[i].after = InstanceBefore(i)

\* The slot holds the same instance, or no instance, in both states.
SameInstance(a, b) == a = b \/ (~Truthy(a) /\ ~Truthy(b))

\* The statement as written: reset() too leaves the stored instance as it
\* was.
C25_ResetKeepsInstance ==
    /\ ~isCreating
    /\ CreatingLines(Statics, EntryFrame) \subseteq {"L37new", "L37store", "L38"}
    /\ \A i \in DOMAIN log :
          /\ ~log[i].creating
          /\ (IsFailedNew(i) \/ log[i].op = "reset") =>
                 SameInstance(log[i].after, InstanceBefore(i))

\* An instance was constructed, a direct construction then failed and
\* reset() was called after it; a getInstance() that starts now sets the
\* flag for its construction.
C25_Witness ==
    /\ Len(log) >= 3
    /\ log[1].op = "getInstance"
    /\ log[1].ctorRuns = 1
    /\ IsFailedNew(2)
    /\ log[2].after = log[1].ret
    /\ log[3].op = "reset"
    /\ log[3].after = Null
    /\ CreatingLines(Statics, EntryFrame) = {"L37new", "L37store", "L38"}

VariantWasSet(f) == variantCall.passed[f] # Undefined

C27_StaleFieldsStay ==
    /\ \A f \in Fields :
          VariantWasSet(f) => variant.fields[f] = variantCall.passed[f]
    /\ \A f \in Optional :
          VariantWasSet(f) => variant.fields[f] # Undefined
    /\ JustBuilt =>
          \A f \in Fields :
              VariantWasSet(f) =>
                  /\ variantCall.made[f] = variantCall.passed[f]
                  /\ ToBoolean(variantCall.passed[f]) =>
                         variantCall.passed[f] \in Values(variantCall.made.features)

\* A second build() returned a product that has the gpu set before the first
\* build(), after setters of other fields only were called in between.
C27_Witness ==
    /\ JustBuilt
    /\ variantCall.builds = 2
    /\ variantCall.passed.gpu = Str("A")
    /\ variantCall.made.gpu = Str("A")
    /\ variantCall.made.features[4] = Str("A")
    /\ variantCall.fresh = {"cpu"}
    /\ variantCall.passed.powerSupply = Undefined
    /\ variantCall.made.powerSupply = Undefined

\* ---------------------------------------------------------------------
\* C29  GenericBuilder.build() calls buildImplementation() first and
\* reset() second, each exactly once, and returns the value that
\* buildImplementation() produced before the reset.  When
\* buildImplementation() throws, the error propagates, reset() is not
\* called and the state of the builder stays as it was.  After every
\* build() that returns, the builder is in its reset state.
\* ---------------------------------------------------------------------
C29_GenericBuildOrder ==
    genericCall.op = "build" =>
        LET impl == BuildImplementation(genericCall.before, genericCall.builds - 1) IN
        /\ ~genericCall.threw =>
              /\ genericCall.trace = <<"buildImplementation", "reset">>
              /\ genericCall.made = [parts |-> genericCall.before.parts]
              /\ genericCall.ret = impl.ret
              /\ generic = NewGeneric
        /\ genericCall.threw =>
              /\ genericCall.trace = <<"buildImplementation">>
              /\ genericCall.error = IncompleteMsg
              /\ generic = genericCall.before
        /\ genericCall.threw <=> RequiredPart \notin genericCall.before.parts

\* A second build() returned a product with the parts added after the
\* first, and left the builder empty.
C29_Witness ==
    /\ genericCall.op = "build"
    /\ ~genericCall.threw
    /\ genericCall.builds = 2
    /\ genericCall.before.parts = {"a", "b"}
    /\ genericCall.made.parts = {"a", "b"}
    /\ generic.parts = {}

\* ---------------------------------------------------------------------
\* C30  For the key K, every getInstance(K, ...) call that returns between
\* two resets of K returns the identical value, and the value is stored at
\* most once, also when the factory that runs for K calls getInstance(K, g)
\* or reset(K) itself before it returns.
\* ---------------------------------------------------------------------
IsReturn(i) == reLog[i].op = "getInstance"
NoResetWithin(i, j) == \A k \in i..j : reLog[k].op # "reset"

C30_ReentrantIdentity ==
    \A i, j \in DOMAIN reLog :
        (i < j /\ IsReturn(i) /\ IsReturn(j) /\ NoResetWithin(i, j)) =>
            /\ reLog[i].ret = reLog[j].ret
            /\ ~(reLog[i].stored /\ reLog[j].stored)

\* The call a factory made for K returned one object, and the call that
\* ran the factory then returned another; K was not reset in between.
C30_Witness ==
    \E i \in DOMAIN reLog :
        /\ i + 1 \in DOMAIN reLog
        /\ IsReturn(i) /\ IsReturn(i + 1)
        /\ reLog[i].depth = 2
        /\ reLog[i + 1].depth = 1
        /\ reLog[i].stored /\ reLog[i + 1].stored
        /\ Truthy(reLog[i].ret) /\ Truthy(reLog[i + 1].ret)
        /\ reLog[i].ret # reLog[i + 1].ret
        /\ RegGet(instances, TestKey) = reLog[i + 1].ret

====
